---------------------------- MODULE Spec2Model ----------------------------
(***************************************************************************)
(* Model of attendence-server:                                             *)
(*   - validateUrl, the SSRF guard of src/utils/http/http-client.ts,       *)
(*     together with the URL parser (new URL) it relies on;                *)
(*   - HttpClient.request/get/post/submitForm, in both declarations of     *)
(*     class HttpClient that http-client.ts holds;                         *)
(*   - the CookieJar the client owns;                                      *)
(*   - timingSafeEqual of src/utils/crypto.ts;                             *)
(*   - the Telegram webhook route with processUpdate and its handlers.     *)
(* Strings are TLA+ strings; characters are strings of length one.         *)
(***************************************************************************)
EXTENDS Integers, Sequences, FiniteSets, TLC

(***************************************************************************)
(* Characters and strings                                                  *)
(***************************************************************************)
Ch(s, i) == SubSeq(s, i, i)

UPPER == "ABCDEFGHIJKLMNOPQRSTUVWXYZ"
LOWER == "abcdefghijklmnopqrstuvwxyz"
DIGITS == "0123456789"
HEXDIGITS == "0123456789abcdef"

CharsOf(s) == {Ch(s, i) : i \in 1..Len(s)}

UpperSet == CharsOf(UPPER)
LowerSet == CharsOf(LOWER)
DigitSet == CharsOf(DIGITS)
HexSet == CharsOf(HEXDIGITS) \cup CharsOf("ABCDEF")

LowerMap == [c \in UpperSet |-> Ch(LOWER, CHOOSE i \in 1..26 : Ch(UPPER, i) = c)]

LowerChar(c) == IF c \in UpperSet THEN LowerMap[c] ELSE c

\* Let(e, F) is F applied to the value of e: e is evaluated once, however
\* often F uses it.
Let(e, F(_)) == CHOOSE r \in {F(v) : v \in {e}} : TRUE

RECURSIVE LowerFrom(_, _)
LowerFrom(s, i) ==
    IF i > Len(s) THEN "" ELSE LowerChar(Ch(s, i)) \o LowerFrom(s, i + 1)

ToLower(s) == Let(s, LAMBDA v : LowerFrom(v, 1))

HexVal == [c \in CharsOf(HEXDIGITS) |-> (CHOOSE i \in 1..16 : Ch(HEXDIGITS, i) = c) - 1]

DigitOf(c) == HexVal[LowerChar(c)]

IsAlpha(c) == c \in UpperSet \cup LowerSet
IsDigit(c) == c \in DigitSet
IsHex(c) == c \in HexSet

StartsWith(s, p) == Len(s) >= Len(p) /\ SubSeq(s, 1, Len(p)) = p

AllIn(s, set) == \A i \in 1..Len(s) : Ch(s, i) \in set

\* Index of the first character of s, from position i on, that lies in set;
\* Len(s) + 1 when there is none.
RECURSIVE FirstIn(_, _, _)
FirstIn(s, i, set) ==
    IF i > Len(s) THEN Len(s) + 1
    ELSE IF Ch(s, i) \in set THEN i
    ELSE FirstIn(s, i + 1, set)

\* Index of the first character from position i on that is not in set.
RECURSIVE FirstNotIn(_, _, _)
FirstNotIn(s, i, set) ==
    IF i > Len(s) THEN Len(s) + 1
    ELSE IF Ch(s, i) \notin set THEN i
    ELSE FirstNotIn(s, i + 1, set)

\* Index of the last character of s, up to position i, that lies in set;
\* 0 when there is none.
RECURSIVE LastIn(_, _, _)
LastIn(s, i, set) ==
    IF i < 1 THEN 0
    ELSE IF Ch(s, i) \in set THEN i
    ELSE LastIn(s, i - 1, set)

RECURSIVE LastNotIn(_, _, _)
LastNotIn(s, i, set) ==
    IF i < 1 THEN 0
    ELSE IF Ch(s, i) \notin set THEN i
    ELSE LastNotIn(s, i - 1, set)

From(s, i) == SubSeq(s, i, Len(s))

\* The pieces of s between the occurrences of the character c, from
\* position i on.
RECURSIVE SplitFrom(_, _, _)
SplitFrom(s, i, c) ==
    Let(FirstIn(s, i, {c}), LAMBDA k :
        IF k > Len(s) THEN <<SubSeq(s, i, Len(s))>>
        ELSE <<SubSeq(s, i, k - 1)>> \o SplitFrom(s, k + 1, c))

Split(s, c) == Let(s, LAMBDA v : SplitFrom(v, 1, c))

\* Whether sub occurs in s.
Includes(s, sub) ==
    \E i \in 1..(Len(s) - Len(sub) + 1) : SubSeq(s, i, i + Len(sub) - 1) = sub

RECURSIVE ToDec(_)
ToDec(n) == IF n < 10 THEN Ch(DIGITS, n + 1)
            ELSE ToDec(n \div 10) \o Ch(DIGITS, (n % 10) + 1)

RECURSIVE ToHex(_)
ToHex(n) == IF n < 16 THEN Ch(HEXDIGITS, n + 1)
            ELSE ToHex(n \div 16) \o Ch(HEXDIGITS, (n % 16) + 1)

(***************************************************************************)
(* new URL(urlString): the URL parser the guard calls (no base URL).       *)
(* A result is [ok |-> FALSE] (the constructor throws) or                  *)
(* [ok |-> TRUE, protocol, hostname, port].                                *)
(***************************************************************************)
SpecialSchemes == {"http", "https", "ftp", "ws", "wss", "file"}

SchemeChars == UpperSet \cup LowerSet \cup DigitSet \cup {"+", "-", "."}

\* Code points a host may not contain; a domain may not contain "%" either.
ForbiddenHostChars ==
    {" ", "#", "/", ":", "<", ">", "?", "@", "[", "\\", "]", "^", "|"}

ForbiddenDomainChars == ForbiddenHostChars \cup {"%"}

Slashes == {"/", "\\"}

ParseFailure == [ok |-> FALSE]

\* Leading and trailing spaces are removed before parsing.
StripSpaces(s) ==
    Let(s, LAMBDA v :
        SubSeq(v, FirstNotIn(v, 1, {" "}), LastNotIn(v, Len(v), {" "})))

\* A number read in the given radix, kept as [hi, lo] with value
\* hi * 65536 + lo so that 32-bit addresses fit; hi saturates at 65536
\* (the value is 2^32 or more). NotANumber when a character is no digit of
\* the radix.
NotANumber == [hi |-> -1, lo |-> -1]

RECURSIVE RadixFrom(_, _, _, _)
RadixFrom(s, i, radix, acc) ==
    IF i > Len(s) THEN acc
    ELSE IF ~IsHex(Ch(s, i)) THEN NotANumber
    ELSE IF DigitOf(Ch(s, i)) >= radix THEN NotANumber
    ELSE Let(acc.lo * radix + DigitOf(Ch(s, i)), LAMBDA lo :
         Let(acc.hi * radix + (lo \div 65536), LAMBDA hi :
         Let([hi |-> IF hi > 65536 THEN 65536 ELSE hi, lo |-> lo % 65536],
             LAMBDA next : RadixFrom(s, i + 1, radix, next))))

ParseRadix(s, radix) ==
    Let(s, LAMBDA v : RadixFrom(v, 1, radix, [hi |-> 0, lo |-> 0]))

\* One part of a dotted IPv4 host: decimal, 0x-hexadecimal or 0-octal.
ParseIPv4Number(part) ==
    IF part = "" THEN NotANumber
    ELSE IF Len(part) >= 2 /\ ToLower(SubSeq(part, 1, 2)) = "0x"
         THEN ParseRadix(From(part, 3), 16)
    ELSE IF Len(part) >= 2 /\ Ch(part, 1) = "0"
         THEN ParseRadix(From(part, 2), 8)
    ELSE ParseRadix(part, 10)

\* The parts of a host, a trailing empty part (a final dot) removed.
HostParts(s) ==
    Let(Split(s, "."), LAMBDA parts :
        IF Len(parts) > 1 /\ parts[Len(parts)] = ""
        THEN SubSeq(parts, 1, Len(parts) - 1)
        ELSE parts)

EndsInNumber(s) ==
    Let(HostParts(s), LAMBDA parts :
    Let(parts[Len(parts)], LAMBDA last :
        \/ last # "" /\ AllIn(last, DigitSet)
        \/ ParseIPv4Number(last) # NotANumber))

IPv4Failure == <<>>

\* The IPv4 parser: the four octets of the address, or IPv4Failure. Every
\* part but the last is one octet; the last part fills the octets left.
ParseIPv4(s) ==
    Let(HostParts(s), LAMBDA parts :
    Let([i \in 1..Len(parts) |-> ParseIPv4Number(parts[i])], LAMBDA nums :
    Let(Len(nums), LAMBDA n :
    Let(IF n > 4 \/ nums[n] = NotANumber THEN <<0, 0, 0, 0>>
        ELSE <<nums[n].hi \div 256, nums[n].hi % 256,
               nums[n].lo \div 256, nums[n].lo % 256>>, LAMBDA tail :
        IF n > 4 THEN IPv4Failure
        ELSE IF \E i \in 1..n : nums[i] = NotANumber THEN IPv4Failure
        ELSE IF \E i \in 1..(n - 1) : nums[i].hi > 0 \/ nums[i].lo > 255
             THEN IPv4Failure
        ELSE IF nums[n].hi >= 65536 \/ \E i \in 1..(n - 1) : tail[i] # 0
             THEN IPv4Failure
        ELSE [i \in 1..4 |-> IF i < n THEN nums[i].lo ELSE tail[i]]))))

SerializeIPv4(a) ==
    ToDec(a[1]) \o "." \o ToDec(a[2]) \o "." \o ToDec(a[3]) \o "." \o ToDec(a[4])

(***************************************************************************)
(* IPv6 literals: the parser yields the eight 16-bit pieces (<<>> on       *)
(* failure); the serializer compresses the first longest run of zero       *)
(* pieces and writes lower-case hexadecimal.                               *)
(***************************************************************************)
V6Failure == <<>>

ZeroPieces == [i \in 1..8 |-> 0]

\* Up to four hexadecimal digits from position p: <<value, digits read>>.
RECURSIVE V6Hex(_, _, _, _)
V6Hex(s, p, value, length) ==
    IF length < 4 /\ p <= Len(s) /\ IsHex(Ch(s, p))
    THEN Let(value * 16 + DigitOf(Ch(s, p)), LAMBDA v :
             V6Hex(s, p + 1, v, length + 1))
    ELSE <<value, length>>

\* One decimal part of an embedded IPv4 address from position p:
\* <<value, next position>>; the value is -1 on failure (a leading zero, a
\* value above 255). piece = -1 stands for "no digit read yet".
RECURSIVE V6Dec(_, _, _)
V6Dec(s, p, piece) ==
    IF p <= Len(s) /\ IsDigit(Ch(s, p))
    THEN Let(DigitOf(Ch(s, p)), LAMBDA d :
             IF piece = -1 THEN V6Dec(s, p + 1, d)
             ELSE IF piece = 0 THEN <<-1, p>>
             ELSE IF piece * 10 + d > 255 THEN <<-1, p>>
             ELSE Let(piece * 10 + d, LAMBDA v : V6Dec(s, p + 1, v)))
    ELSE <<piece, p>>

\* The embedded IPv4 address that ends an IPv6 literal, from position p;
\* idx is the 0-based piece index. Yields [ok, addr, idx].
RECURSIVE V6Embedded(_, _, _, _, _)
V6Embedded(s, p, idx, addr, seen) ==
    IF p > Len(s)
    THEN [ok |-> seen = 4, addr |-> addr, idx |-> idx]
    ELSE IF seen > 0 /\ ~(Ch(s, p) = "." /\ seen < 4)
    THEN [ok |-> FALSE, addr |-> addr, idx |-> idx]
    ELSE Let(IF seen > 0 THEN p + 1 ELSE p, LAMBDA q :
         Let(V6Dec(s, q, -1), LAMBDA r :
             IF q > Len(s) \/ ~IsDigit(Ch(s, q)) \/ r[1] = -1
             THEN [ok |-> FALSE, addr |-> addr, idx |-> idx]
             ELSE Let([addr EXCEPT ![idx + 1] = @ * 256 + r[1]], LAMBDA next :
                      V6Embedded(s, r[2],
                                 IF seen + 1 \in {2, 4} THEN idx + 1 ELSE idx,
                                 next, seen + 1))))

\* The pieces read so far, moved to their places around the "::".
V6Finish(addr, idx, compress) ==
    IF compress # -1
    THEN [i \in 1..8 |->
            IF i <= compress THEN addr[i]
            ELSE IF i <= 8 - (idx - compress) THEN 0
            ELSE addr[i - (8 - idx)]]
    ELSE IF idx # 8 THEN V6Failure
    ELSE addr

RECURSIVE V6Loop(_, _, _, _, _)
V6Loop(s, p, idx, compress, addr) ==
    IF p > Len(s) THEN V6Finish(addr, idx, compress)
    ELSE IF idx = 8 THEN V6Failure
    ELSE IF Ch(s, p) = ":"
    THEN IF compress # -1 THEN V6Failure
         ELSE V6Loop(s, p + 1, idx + 1, idx + 1, addr)
    ELSE Let(V6Hex(s, p, 0, 0), LAMBDA hv :
         Let(p + hv[2], LAMBDA q :
         Let([addr EXCEPT ![idx + 1] = hv[1]], LAMBDA next :
             IF q <= Len(s) /\ Ch(s, q) = "."
             THEN IF hv[2] = 0 \/ idx > 6 THEN V6Failure
                  ELSE Let(V6Embedded(s, p, idx, addr, 0), LAMBDA r :
                           IF r.ok THEN V6Finish(r.addr, r.idx, compress)
                           ELSE V6Failure)
             ELSE IF q <= Len(s) /\ Ch(s, q) = ":"
             THEN IF q + 1 > Len(s) THEN V6Failure
                  ELSE V6Loop(s, q + 1, idx + 1, compress, next)
             ELSE IF q <= Len(s) THEN V6Failure
             ELSE V6Loop(s, q, idx + 1, compress, next))))

ParseIPv6(s) ==
    Let(s, LAMBDA v :
        IF v # "" /\ Ch(v, 1) = ":"
        THEN IF Len(v) < 2 \/ Ch(v, 2) # ":" THEN V6Failure
             ELSE V6Loop(v, 3, 1, 1, ZeroPieces)
        ELSE V6Loop(v, 1, 0, -1, ZeroPieces))

\* Length of the run of zero pieces that starts at piece i (1-based).
RECURSIVE ZeroRun(_, _)
ZeroRun(addr, i) ==
    IF i > 8 THEN 0
    ELSE IF addr[i] # 0 THEN 0
    ELSE 1 + ZeroRun(addr, i + 1)

\* Start of the first longest run of two or more zero pieces; 0 if none.
CompressAt(addr) ==
    Let([i \in 1..8 |-> ZeroRun(addr, i)], LAMBDA run :
    Let(CHOOSE n \in 0..8 : /\ \E i \in 1..8 : run[i] = n
                            /\ \A i \in 1..8 : run[i] <= n, LAMBDA best :
        IF best < 2 THEN 0
        ELSE CHOOSE i \in 1..8 : /\ run[i] = best
                                 /\ \A j \in 1..(i - 1) : run[j] < best))

RECURSIVE V6Write(_, _, _, _)
V6Write(addr, i, compress, ignore0) ==
    IF i > 8 THEN ""
    ELSE IF ignore0 /\ addr[i] = 0 THEN V6Write(addr, i + 1, compress, TRUE)
    ELSE IF compress = i
    THEN (IF i = 1 THEN "::" ELSE ":") \o V6Write(addr, i + 1, compress, TRUE)
    ELSE ToHex(addr[i]) \o (IF i # 8 THEN ":" ELSE "")
             \o V6Write(addr, i + 1, compress, FALSE)

SerializeIPv6(addr) ==
    Let(addr, LAMBDA a : Let(CompressAt(a), LAMBDA c : V6Write(a, 1, c, FALSE)))

(***************************************************************************)
(* The host parser: [ok, host]. A bracketed host is an IPv6 literal and    *)
(* keeps its brackets when serialized; a domain is lower-cased; a host     *)
(* that ends in a number is an IPv4 address, written back as four decimal  *)
(* octets.                                                                 *)
(***************************************************************************)
HostFailure == [ok |-> FALSE, host |-> ""]

ParseHost(input, isOpaque) ==
    IF input # "" /\ Ch(input, 1) = "["
    THEN IF Ch(input, Len(input)) # "]" THEN HostFailure
         ELSE Let(ParseIPv6(SubSeq(input, 2, Len(input) - 1)), LAMBDA addr :
                  IF addr = V6Failure THEN HostFailure
                  ELSE [ok |-> TRUE, host |-> "[" \o SerializeIPv6(addr) \o "]"])
    ELSE IF isOpaque
    THEN IF \E i \in 1..Len(input) : Ch(input, i) \in ForbiddenHostChars
         THEN HostFailure
         ELSE [ok |-> TRUE, host |-> input]
    ELSE Let(ToLower(input), LAMBDA asciiDomain :
             IF asciiDomain = "" THEN HostFailure
             ELSE IF \E i \in 1..Len(asciiDomain) :
                         Ch(asciiDomain, i) \in ForbiddenDomainChars
             THEN HostFailure
             ELSE IF EndsInNumber(asciiDomain)
             THEN Let(ParseIPv4(asciiDomain), LAMBDA a :
                      IF a = IPv4Failure THEN HostFailure
                      ELSE [ok |-> TRUE, host |-> SerializeIPv4(a)])
             ELSE [ok |-> TRUE, host |-> asciiDomain])

\* End of the host inside an authority: the first ":" outside brackets.
RECURSIVE HostEnd(_, _, _)
HostEnd(s, i, inBrackets) ==
    IF i > Len(s) THEN Len(s) + 1
    ELSE IF Ch(s, i) = ":" /\ ~inBrackets THEN i
    ELSE Let(IF Ch(s, i) = "[" THEN TRUE
             ELSE IF Ch(s, i) = "]" THEN FALSE
             ELSE inBrackets, LAMBDA b : HostEnd(s, i + 1, b))

ValidPort(p) == AllIn(p, DigitSet) /\ ParseRadix(p, 10).hi = 0

URLRecord(scheme, hostname, port) ==
    [ok |-> TRUE, protocol |-> scheme \o ":", hostname |-> hostname, port |-> port]

\* The host and port states, on the authority after any credentials.
ParseHostPort(scheme, hostport, special) ==
    Let(HostEnd(hostport, 1, FALSE), LAMBDA h :
    Let(SubSeq(hostport, 1, h - 1), LAMBDA hostbuf :
    Let(From(hostport, h + 1), LAMBDA port :
        IF hostbuf = "" /\ (special \/ h <= Len(hostport)) THEN ParseFailure
        ELSE IF hostbuf = "" THEN URLRecord(scheme, "", "")
        ELSE Let(ParseHost(hostbuf, ~special), LAMBDA host :
                 IF ~host.ok THEN ParseFailure
                 ELSE IF ~ValidPort(port) THEN ParseFailure
                 ELSE URLRecord(scheme, host.host, port)))))

\* The authority state, s being the input after the scheme's slashes.
ParseAuthority(scheme, s, special) ==
    Let(FirstIn(s, 1, IF special THEN {"/", "?", "#", "\\"}
                                 ELSE {"/", "?", "#"}), LAMBDA e :
    Let(SubSeq(s, 1, e - 1), LAMBDA authority :
    Let(LastIn(authority, Len(authority), {"@"}), LAMBDA at :
    Let(From(authority, at + 1), LAMBDA hostport :
        IF at > 0 /\ hostport = "" THEN ParseFailure
        ELSE ParseHostPort(scheme, hostport, special)))))

IsDriveLetter(buf) ==
    Len(buf) = 2 /\ IsAlpha(Ch(buf, 1)) /\ Ch(buf, 2) \in {":", "|"}

\* The file, file slash and file host states.
ParseFile(rest) ==
    IF Len(rest) >= 2 /\ Ch(rest, 1) \in Slashes /\ Ch(rest, 2) \in Slashes
    THEN Let(From(rest, 3), LAMBDA s :
         Let(SubSeq(s, 1, FirstIn(s, 1, {"/", "\\", "?", "#"}) - 1), LAMBDA buf :
             IF buf = "" \/ IsDriveLetter(buf) THEN URLRecord("file", "", "")
             ELSE Let(ParseHost(buf, FALSE), LAMBDA host :
                      IF ~host.ok THEN ParseFailure
                      ELSE IF host.host = "localhost"
                      THEN URLRecord("file", "", "")
                      ELSE URLRecord("file", host.host, ""))))
    ELSE URLRecord("file", "", "")

\* The scheme start and scheme states, then the states the scheme selects.
ParseScheme(s) ==
    Let(FirstNotIn(s, 1, SchemeChars), LAMBDA k :
    Let(ToLower(SubSeq(s, 1, k - 1)), LAMBDA scheme :
    Let(From(s, k + 1), LAMBDA rest :
        IF s = "" THEN ParseFailure
        ELSE IF ~IsAlpha(Ch(s, 1)) THEN ParseFailure
        ELSE IF k > Len(s) THEN ParseFailure
        ELSE IF Ch(s, k) # ":" THEN ParseFailure
        ELSE IF scheme = "file" THEN ParseFile(rest)
        ELSE IF scheme \in SpecialSchemes
        THEN Let(From(rest, FirstNotIn(rest, 1, Slashes)), LAMBDA after :
                 ParseAuthority(scheme, after, TRUE))
        ELSE IF StartsWith(rest, "//")
        THEN Let(From(rest, 3), LAMBDA after :
                 ParseAuthority(scheme, after, FALSE))
        ELSE URLRecord(scheme, "", ""))))

\* new URL(urlString)
ParseURL(urlString) == Let(StripSpaces(urlString), LAMBDA s : ParseScheme(s))

(***************************************************************************)
(* validateUrl: the SSRF guard.                                            *)
(***************************************************************************)
BadRequestError(message) ==
    [identifier |-> "BadRequestError", message |-> message]

InternalServerError(message) ==
    [identifier |-> "InternalServerError", message |-> message]

ok(value) == [isErr |-> FALSE, value |-> value]
err(error) == [isErr |-> TRUE, error |-> error]

\* The patterns with the class B range written 1[0-9] for 1[6-9]: what C3
\* must tell from the patterns of the source.
PRIVATE_IP_PATTERNS_WideClassB(hostname) ==
    << StartsWith(hostname, "127."),
       StartsWith(hostname, "10."),
       /\ StartsWith(hostname, "172.")
       /\ Len(hostname) >= 7
       /\ \/ Ch(hostname, 5) = "1" /\ Ch(hostname, 6) \in DigitSet
          \/ Ch(hostname, 5) = "2" /\ Ch(hostname, 6) \in DigitSet
          \/ Ch(hostname, 5) = "3" /\ Ch(hostname, 6) \in CharsOf("01")
       /\ Ch(hostname, 7) = ".",
       StartsWith(hostname, "192.168."),
       StartsWith(hostname, "169.254."),
       StartsWith(hostname, "0.") >>

\* The result of pattern.test(hostname) for each regular expression of
\* PRIVATE_IP_PATTERNS, in order. The expressions are anchored at the start
\* only.
PRIVATE_IP_PATTERNS(hostname) ==
    << StartsWith(hostname, "127."),
       StartsWith(hostname, "10."),
       /\ StartsWith(hostname, "172.")
       /\ Len(hostname) >= 7
       /\ \/ Ch(hostname, 5) = "1" /\ Ch(hostname, 6) \in CharsOf("6789")
          \/ Ch(hostname, 5) = "2" /\ Ch(hostname, 6) \in DigitSet
          \/ Ch(hostname, 5) = "3" /\ Ch(hostname, 6) \in CharsOf("01")
       /\ Ch(hostname, 7) = ".",
       StartsWith(hostname, "192.168."),
       StartsWith(hostname, "169.254."),
       StartsWith(hostname, "0.") >>

\* The list without its fourth entry: what C4 must tell from the list of
\* the source.
BLOCKED_HOSTNAMES_NoLoopbackAlias ==
    << "localhost", "localhost.localdomain", "ip6-localhost", "0.0.0.0" >>

BLOCKED_HOSTNAMES ==
    << "localhost", "localhost.localdomain", "ip6-localhost", "ip6-loopback",
       "0.0.0.0" >>

\* /^f[cd][0-9a-f]{2}:/i on a lower-cased hostname, p being "fc" or "fd".
UlaPattern(h, p) ==
    /\ StartsWith(h, p)
    /\ Len(h) >= 5
    /\ Ch(h, 3) \in CharsOf(HEXDIGITS)
    /\ Ch(h, 4) \in CharsOf(HEXDIGITS)
    /\ Ch(h, 5) = ":"

\* The result of pattern.test(hostname) for each regular expression of
\* BLOCKED_IPV6_PATTERNS, in order; the /i expressions ignore case.
BLOCKED_IPV6_PATTERNS(hostname) ==
    Let(ToLower(hostname), LAMBDA h :
        << hostname = "::1",
           hostname = "[::1]",
           StartsWith(h, "::ffff:"),
           UlaPattern(h, "fc"),
           UlaPattern(h, "fd"),
           StartsWith(h, "fe80:") >>)

Matches(tests) == \E i \in 1..Len(tests) : tests[i]

\* Lines 154-175: the checks on the host of an http or https URL.
CheckHostname(url, hostname) ==
    IF \E i \in 1..Len(BLOCKED_HOSTNAMES) : BLOCKED_HOSTNAMES[i] = hostname
    THEN err(BadRequestError("Blocked hostname: localhost"))
    ELSE IF Matches(PRIVATE_IP_PATTERNS(hostname))
    THEN err(BadRequestError("Blocked: private IP address"))
    ELSE IF Matches(BLOCKED_IPV6_PATTERNS(hostname))
    THEN err(BadRequestError("Blocked: private IPv6 address"))
    ELSE ok(url)

\* The guard with the host checked before the scheme: what C5 must tell
\* from the order of the source.
validateUrl_HostFirst(urlString) ==
    Let(ParseURL(urlString), LAMBDA url :
        IF ~url.ok THEN err(BadRequestError("Invalid URL format"))
        ELSE Let(CheckHostname(url, ToLower(url.hostname)), LAMBDA checked :
                 IF checked.isErr THEN checked
                 ELSE IF url.protocol # "http:" /\ url.protocol # "https:"
                 THEN err(BadRequestError("Blocked protocol: " \o url.protocol))
                 ELSE checked))

validateUrl(urlString) ==
    Let(ParseURL(urlString), LAMBDA url :
        IF ~url.ok THEN err(BadRequestError("Invalid URL format"))
        ELSE IF url.protocol # "http:" /\ url.protocol # "https:"
        THEN err(BadRequestError("Blocked protocol: " \o url.protocol))
        ELSE Let(ToLower(url.hostname), LAMBDA hostname :
                 CheckHostname(url, hostname)))

(***************************************************************************)
(* The CookieJar of cookie-jar.ts: name -> value, in insertion order.      *)
(***************************************************************************)
EmptyJar == <<>>

\* The leading name=value token of a Set-Cookie line: [ok, name, value];
\* not ok when the token holds no "=".
ParseSetCookie(line) ==
    Let(SubSeq(line, 1, FirstIn(line, 1, {";"}) - 1), LAMBDA token :
    Let(FirstIn(token, 1, {"="}), LAMBDA eq :
        IF eq > Len(token) THEN [ok |-> FALSE, name |-> "", value |-> ""]
        ELSE [ok |-> TRUE, name |-> SubSeq(token, 1, eq - 1),
              value |-> From(token, eq + 1)]))

\* A cookie set again moves to the end (delete, then set): what C12 must
\* tell from an update in place.
JarSet_MoveToEnd(jar, name, value) ==
    Append(SelectSeq(jar, LAMBDA c : c.name # name),
           [name |-> name, value |-> value])

\* Map.set: an existing name keeps its place and takes the new value.
JarSet(jar, name, value) ==
    IF \E i \in 1..Len(jar) : jar[i].name = name
    THEN [i \in 1..Len(jar) |->
            IF jar[i].name = name THEN [name |-> name, value |-> value]
            ELSE jar[i]]
    ELSE Append(jar, [name |-> name, value |-> value])

RECURSIVE SetCookiesFrom(_, _, _)
SetCookiesFrom(jar, lines, i) ==
    IF i > Len(lines) THEN jar
    ELSE Let(ParseSetCookie(lines[i]), LAMBDA c :
         Let(IF c.ok THEN JarSet(jar, c.name, c.value) ELSE jar, LAMBDA next :
             SetCookiesFrom(next, lines, i + 1)))

\* cookieJar.setCookies(setCookies)
setCookies(jar, lines) == SetCookiesFrom(jar, lines, 1)

RECURSIVE CookieHeaderFrom(_, _)
CookieHeaderFrom(jar, i) ==
    IF i > Len(jar) THEN ""
    ELSE jar[i].name \o "=" \o jar[i].value
            \o (IF i < Len(jar) THEN "; " ELSE "") \o CookieHeaderFrom(jar, i + 1)

\* cookieJar.getCookieHeader(): the empty string when no cookie is stored.
getCookieHeader(jar) == CookieHeaderFrom(jar, 1)

(***************************************************************************)
(* Headers objects: a function from lower-cased header names to values.    *)
(* A header layer (a Record<string, string>) is the sequence of its        *)
(* <<name, value>> entries, in Object.entries order.                       *)
(***************************************************************************)
EmptyHeaders == [n \in {} |-> ""]

\* headers.set(key, value)
HeadersSet(h, key, value) ==
    Let(ToLower(key), LAMBDA k :
        [n \in DOMAIN h \cup {k} |-> IF n = k THEN value ELSE h[n]])

\* headers.append(key, value): a repeated name joins the values with ", ".
HeadersAppend(h, key, value) ==
    Let(ToLower(key), LAMBDA k :
        [n \in DOMAIN h \cup {k} |->
            IF n # k THEN h[n]
            ELSE IF k \in DOMAIN h THEN h[k] \o ", " \o value
            ELSE value])

\* Object.entries(layer).forEach(([key, value]) => headers.set(key, value))
RECURSIVE SetAll(_, _, _)
SetAll(h, layer, i) ==
    IF i > Len(layer) THEN h
    ELSE Let(HeadersSet(h, layer[i][1], layer[i][2]), LAMBDA next :
             SetAll(next, layer, i + 1))

\* new Headers(init)
RECURSIVE AppendAll(_, _, _)
AppendAll(h, init, i) ==
    IF i > Len(init) THEN h
    ELSE Let(HeadersAppend(h, init[i][1], init[i][2]), LAMBDA next :
             AppendAll(next, init, i + 1))

\* optionHeaders.forEach((value, key) => headers.set(key, value)): the
\* names of a Headers object are distinct, so the order does not matter.
Merge(h, other) ==
    [n \in DOMAIN h \cup DOMAIN other |-> IF n \in DOMAIN other THEN other[n] ELSE h[n]]

\* Lines 198-218 (and 21-41): the three layers, lowest priority first.
LayerHeaders(defaults, optionHeaders, customHeaders) ==
    Let(SetAll(EmptyHeaders, defaults, 1), LAMBDA h1 :
    Let(IF optionHeaders # <<>>
        THEN Merge(h1, AppendAll(EmptyHeaders, optionHeaders, 1))
        ELSE h1, LAMBDA h2 :
        SetAll(h2, customHeaders, 1)))

\* The jar's cookies set only when no Cookie header is there yet: what C11
\* must tell from the source.
InjectCookies_IfAbsent(headers, jar) ==
    Let(getCookieHeader(jar), LAMBDA cookieHeader :
        IF cookieHeader # "" /\ "cookie" \notin DOMAIN headers
        THEN HeadersSet(headers, "Cookie", cookieHeader)
        ELSE headers)

\* Lines 220-223 (and 43-46): the jar's cookies, when it holds any.
InjectCookies(headers, jar) ==
    Let(getCookieHeader(jar), LAMBDA cookieHeader :
        IF cookieHeader # "" THEN HeadersSet(headers, "Cookie", cookieHeader)
        ELSE headers)

\* The headers handed to fetch.
RequestHeaders(defaults, optionHeaders, customHeaders, jar) ==
    InjectCookies(LayerHeaders(defaults, optionHeaders, customHeaders), jar)

(***************************************************************************)
(* State.                                                                  *)
(***************************************************************************)
VARIABLES
    guardPc,        \* "input" before validateUrl has run on guardInput, then "done"
    guardInput,     \* the candidate URL: its text (raw) and how it was built
    guardResult,    \* what validateUrl returned
    decl,           \* which declaration of class HttpClient the client is built from
    defaultHeaders, \* this.defaultHeaders
    cookieJar,      \* this.cookieJar
    inflight,       \* per call: idle, or awaiting fetch for a URL
    fetchCount,     \* how often the transport (fetch) has been invoked
    last,           \* the step just taken: a fetch invocation or a return
    ingested,       \* history: the Set-Cookie lines passed to the jar so far, in
                    \* the order the responses were processed
    cmp,            \* a call of timingSafeEqual: its arguments, locals and position
    hook,           \* a request in the webhook route: the request, the environment,
                    \* the handler's position and what it has done
    bot             \* a call of processUpdate: the update, the handler's position
                    \* and the Telegram API calls made

guardVars == <<guardPc, guardInput, guardResult>>

clientVars == <<decl, defaultHeaders, cookieJar, inflight, fetchCount, last, ingested>>

otherVars == <<cmp, hook, bot>>

vars == <<guardPc, guardInput, guardResult,
          decl, defaultHeaders, cookieJar, inflight, fetchCount, last, ingested,
          cmp, hook, bot>>

(***************************************************************************)
(* Candidate URLs: scheme "://" host tail, over hosts of three kinds (a    *)
(* dotted IPv4 literal, a bracketed IPv6 literal, a name), and strings     *)
(* that are no such URL.                                                   *)
(***************************************************************************)
Dotted(o) == ToDec(o[1]) \o "." \o ToDec(o[2]) \o "." \o ToDec(o[3]) \o "." \o ToDec(o[4])

FirstOctets == {0, 1, 8, 9, 10, 11, 100, 126, 127, 128, 169, 170, 172, 173, 192, 193}
SecondOctets == {0, 15, 16, 19, 20, 29, 30, 31, 32, 167, 168, 169, 253, 254, 255}
LastOctets == {<<0, 0>>, <<0, 1>>, <<2, 3>>}

V4Host(text, octets) ==
    [kind |-> "v4", text |-> text, octets |-> octets, literal |-> ""]

V4Hosts ==
    {V4Host(Dotted(<<a, b, t[1], t[2]>>), <<a, b, t[1], t[2]>>) :
        a \in FirstOctets, b \in SecondOctets, t \in LastOctets}
    \cup
    \* other spellings of an IPv4 address the URL parser accepts
    { V4Host("127.1", <<127, 0, 0, 1>>),
      V4Host("0x7f.0.0.1", <<127, 0, 0, 1>>),
      V4Host("0177.0.0.1", <<127, 0, 0, 1>>),
      V4Host("2130706433", <<127, 0, 0, 1>>),
      V4Host("127.0.0.1.", <<127, 0, 0, 1>>),
      V4Host("10.1", <<10, 0, 0, 1>>),
      V4Host("0xA.0.0.1", <<10, 0, 0, 1>>),
      V4Host("192.168.257", <<192, 168, 1, 1>>),
      V4Host("172.16.1", <<172, 16, 0, 1>>),
      V4Host("0", <<0, 0, 0, 0>>),
      V4Host("8.8.8.8", <<8, 8, 8, 8>>),
      V4Host("134744072", <<8, 8, 8, 8>>) }

V6Literals ==
    { "::1", "0:0:0:0:0:0:0:1", "0000:0000:0000:0000:0000:0000:0000:0001",
      "::ffff:127.0.0.1", "::ffff:7f00:1", "::FFFF:10.0.0.1", "::ffff:8.8.8.8",
      "fc00::1", "FC00::1", "fc12:3456::1", "fd00::1", "fdab:cdef:1:2:3:4:5:6",
      "fe80::1", "FE80::1", "fe80:0:0:0:1:2:3:4", "febf::1",
      "::", "::2", "2001:db8::1", "2001:4860:4860::8888", "fec0::1", "fb00::1",
      "ff02::1", "1:0:0:2:0:0:0:3" }

V6Host(literal) ==
    [kind |-> "v6", text |-> "[" \o literal \o "]", octets |-> <<>>,
     literal |-> literal]

V6Hosts == {V6Host(l) : l \in V6Literals}

NameHost(text) == [kind |-> "name", text |-> text, octets |-> <<>>, literal |-> ""]

Names ==
    { "localhost", "LOCALHOST", "LocalHost", "localhost.localdomain",
      "Localhost.LocalDomain", "ip6-localhost", "IP6-LOCALHOST", "ip6-loopback",
      "Ip6-Loopback", "localhost.", "localhost.example.com", "mylocalhost",
      "example.com", "EXAMPLE.COM", "api.telegram.org", "a.b.c.example.org",
      "10.example.com", "127.example.com", "0.example.com", "192.168.example.com",
      "169.254.example.com", "172.16.example.com", "172.32.example.com",
      "10", "fe80", "fc00.example.com", "fd00", "x127.0.0.1.example.com",
      "1e100.net", "0x7f.example.com" }

NameHosts == {NameHost(n) : n \in Names \ {"10"}}

HttpSchemes == {"http", "https", "HTTP", "Https"}
OtherSchemes == {"ftp", "FTP", "ws", "wss", "gopher", "file", "data", "javascript"}
Tails == {"", "/", "/path", ":8080/a"}

GuardUrl(scheme, host, tail) ==
    [raw |-> scheme \o "://" \o host.text \o tail,
     scheme |-> ToLower(scheme), host |-> host]

\* Strings that are not of the form above.
NoHost == [kind |-> "none", text |-> "", octets |-> <<>>, literal |-> ""]

OtherInputs ==
    { "", "example.com", "//example.com/", "/path", "http://", "https:///",
      "http://[::1", "http://[::1]x/", "http://[1::2::3]/", "http://[1:2:3]/",
      "http://1.2.3.4.5/", "http://256.0.0.1/", "http://example.com:99999/",
      "http://exa mple.com/", "1http://example.com/", "http//example.com/",
      "javascript:alert(1)", "mailto:a@example.com", "file:///etc/passwd",
      "data:text/plain,hi", "http:example.com", "http:/127.0.0.1/",
      " http://localhost/ ", "http://user@127.0.0.1/", "http://127.0.0.1:80/",
      "http://[::1]:8080/", "ftp://", "gopher://exa mple/" }

GuardInputs ==
    {GuardUrl(s, h, t) : s \in HttpSchemes,
                         h \in V4Hosts \cup V6Hosts \cup NameHosts, t \in Tails}
    \cup {GuardUrl(s, h, "/") :
            s \in OtherSchemes,
            h \in { V4Host("127.0.0.1", <<127, 0, 0, 1>>),
                    V4Host("8.8.8.8", <<8, 8, 8, 8>>),
                    V6Host("::1"), V6Host("fe80::1"),
                    NameHost("localhost"), NameHost("example.com"),
                    NameHost("LocalHost") }}
    \cup {[raw |-> r, scheme |-> "", host |-> NoHost] : r \in OtherInputs}

NoGuardResult == [isErr |-> FALSE, pending |-> TRUE]

(***************************************************************************)
(* Request bodies: JSON.stringify of an object whose values (typed        *)
(* unknown by JsonBody) are strings or BigInts, and                        *)
(* new URLSearchParams(formData).toString(). An object is the sequence of  *)
(* its <<key, value>> entries; a JSON value is [type, text].               *)
(***************************************************************************)
JsonString(text) == [type |-> "string", text |-> text]
JsonBigInt(text) == [type |-> "bigint", text |-> text]

RECURSIVE JsonEscapeFrom(_, _)
JsonEscapeFrom(s, i) ==
    IF i > Len(s) THEN ""
    ELSE (IF Ch(s, i) \in {"\"", "\\"} THEN "\\" \o Ch(s, i) ELSE Ch(s, i))
            \o JsonEscapeFrom(s, i + 1)

JsonQuote(s) == "\"" \o JsonEscapeFrom(s, 1) \o "\""

RECURSIVE JsonEntries(_, _)
JsonEntries(body, i) ==
    IF i > Len(body) THEN ""
    ELSE JsonQuote(body[i][1]) \o ":" \o JsonQuote(body[i][2].text)
            \o (IF i < Len(body) THEN "," ELSE "") \o JsonEntries(body, i + 1)

\* JSON.stringify(body): the text, or the TypeError it throws on a BigInt.
JSONstringify(body) ==
    IF \E i \in 1..Len(body) : body[i][2].type = "bigint"
    THEN [threw |-> TRUE, text |-> "",
          error |-> [isError |-> TRUE,
                     message |-> "Do not know how to serialize a BigInt"]]
    ELSE [threw |-> FALSE, text |-> "{" \o JsonEntries(body, 1) \o "}"]

FormSafeChars == UpperSet \cup LowerSet \cup DigitSet \cup {"*", "-", ".", "_"}

PercentCode ==
    [c \in {"&", "=", "+", "/", "?", "%", "@", ":"} |->
        CASE c = "&" -> "%26" [] c = "=" -> "%3D" [] c = "+" -> "%2B"
          [] c = "/" -> "%2F" [] c = "?" -> "%3F" [] c = "%" -> "%25"
          [] c = "@" -> "%40" [] c = ":" -> "%3A"]

RECURSIVE FormEncodeFrom(_, _)
FormEncodeFrom(s, i) ==
    IF i > Len(s) THEN ""
    ELSE (IF Ch(s, i) \in FormSafeChars THEN Ch(s, i)
          ELSE IF Ch(s, i) = " " THEN "+"
          ELSE PercentCode[Ch(s, i)]) \o FormEncodeFrom(s, i + 1)

RECURSIVE FormEntries(_, _)
FormEntries(formData, i) ==
    IF i > Len(formData) THEN ""
    ELSE FormEncodeFrom(formData[i][1], 1) \o "=" \o FormEncodeFrom(formData[i][2], 1)
            \o (IF i < Len(formData) THEN "&" ELSE "")
            \o FormEntries(formData, i + 1)

\* new URLSearchParams(formData).toString()
URLSearchParamsToString(formData) == FormEntries(formData, 1)

(***************************************************************************)
(* Inputs of the client.                                                   *)
(***************************************************************************)
MaxInFlight == 2
MaxFetches == 2

CallIds == 1..MaxInFlight

FirstDecl == "first"      \* class HttpClient of lines 11-85
SecondDecl == "second"    \* class HttpClient of lines 178-278

ClientUrls ==
    { "https://example.com/path", "https://api.telegram.org/bot",
      "http://127.0.0.1/admin", "ftp://example.com/", "not a url" }

DefaultLayers == { <<>>, << <<"X", "1">> >> }

CustomLayers ==
    { <<>>, << <<"X", "4">> >>, << <<"x", "5">>, <<"Accept", "text/html">> >>,
      << <<"Cookie", "sid=caller">> >> }

RawOptions ==
    { [method |-> "GET", headers |-> <<>>, body |-> ""],
      [method |-> "PUT", headers |-> << <<"X", "2">>, <<"Y", "3">> >>, body |-> "data"] }

JsonBodies ==
    { << <<"name", JsonString("a")>> >>,
      << <<"q", JsonString("say \"hi\"")>>, <<"n", JsonString("1")>> >>,
      << <<"id", JsonBigInt("10")>> >> }

FormDatas == { << <<"name", "a">>, <<"city", "b">> >>, << <<"q", "a b&c=d">> >> }

Responses ==
    { [status |-> st, setCookies |-> sc] :
        st \in {200, 404, 500},
        sc \in { <<>>, <<"a=1">>, <<"a=9; Path=/; HttpOnly", "b=2">>,
                 <<"malformed", "b=3; Secure">> } }

\* What fetch may throw: an Error with a message, or a value that is no Error.
Thrown ==
    { [isError |-> TRUE, message |-> "fetch failed"],
      [isError |-> FALSE, message |-> ""] }

Idle == [pc |-> "idle", url |-> "", guard |-> "none", via |-> "", seq |-> 0]

\* The headers a caller passes to post and submitForm.
SugarLayers == { <<>>, << <<"content-type", "text/plain">> >> }

\* fetch answers only for a URL it can parse and speak to.
FetchCanRespond(url) ==
    Let(ParseURL(url), LAMBDA u : u.ok /\ u.protocol \in {"http:", "https:"})

\* validateUrl and fetch on each URL the client is called with, computed
\* once.
GuardOf == [u \in ClientUrls |-> validateUrl(u)]
Reachable == {u \in ClientUrls : FetchCanRespond(u)}

(***************************************************************************)
(* HttpClient.request and the convenience methods.                         *)
(***************************************************************************)
\* Whether request returns before calling fetch: the second declaration
\* validates the URL (lines 193-196), the first does not.
GuardRejects(url) == decl = SecondDecl /\ GuardOf[url].isErr

\* What a call that went on to fetch knows of its URL: the guard accepted
\* it, or ("none") no guard was asked.
GuardVerdict == IF decl = SecondDecl THEN "accepted" ELSE "none"

\* The lines after a malformed one dropped with it: what C13 must tell from
\* the source.
StoreSetCookies_StopAtMalformed(jar, lines) ==
    IF Len(lines) > 0
    THEN setCookies(jar, SubSeq(lines, 1,
             (CHOOSE k \in 1..(Len(lines) + 1) :
                 /\ k <= Len(lines) => ~ParseSetCookie(lines[k]).ok
                 /\ \A j \in 1..(k - 1) : ParseSetCookie(lines[j]).ok) - 1))
    ELSE jar

\* A name the jar already holds keeps its value (first write wins): what
\* C14 must tell from the source.
StoreSetCookies_KeepExisting(jar, lines) ==
    IF Len(lines) > 0
    THEN setCookies(jar, SelectSeq(lines, LAMBDA l :
             \A i \in 1..Len(jar) : jar[i].name # ParseSetCookie(l).name))
    ELSE jar

\* Only the first Set-Cookie line stored (what headers.get("set-cookie")
\* in place of getSetCookie() would keep): what C10 must tell from the
\* source.
StoreSetCookies_FirstOnly(jar, lines) ==
    IF Len(lines) > 0 THEN setCookies(jar, <<lines[1]>>) ELSE jar

\* Lines 229-230 (and 51-52): the response's Set-Cookie lines go to the jar.
StoreSetCookies(jar, lines) ==
    IF Len(lines) > 0 THEN setCookies(jar, lines) ELSE jar

\* The error built from error.message without the instanceof test: what C9
\* must tell from the source.
CatchResult_NoFallback(e) == err(InternalServerError(e.message))

\* Lines 233-235: the error returned for what fetch threw.
CatchResult(e) ==
    err(InternalServerError(IF e.isError THEN e.message
                            ELSE "Network request failed"))

\* request() up to its await: either the guard's error is returned, or fetch
\* is invoked with the merged headers.
RequestCall(c, via, url, options, customHeaders) ==
    /\ inflight[c].pc = "idle"
    /\ \A d \in 1..(c - 1) : inflight[d].pc # "idle"   \* calls are numbered as they start
    /\ IF GuardRejects(url)
       THEN /\ last' = [op |-> "return", call |-> c, via |-> via, url |-> url,
                        guard |-> "rejected",
                        cause |-> "guard", completion |-> "returned",
                        result |-> err(GuardOf[url].error),
                        jarBefore |-> cookieJar, fetchBefore |-> fetchCount]
            /\ UNCHANGED <<inflight, fetchCount>>
       ELSE /\ fetchCount < MaxFetches
            /\ fetchCount' = fetchCount + 1
            /\ inflight' = [inflight EXCEPT ![c] = [pc |-> "awaiting", url |-> url,
                                                    guard |-> GuardVerdict,
                                                    via |-> via,
                                                    seq |-> fetchCount + 1]]
            /\ last' = [op |-> "fetch", call |-> c, via |-> via, url |-> url,
                        guard |-> GuardVerdict,
                        method |-> options.method, body |-> options.body,
                        optionHeaders |-> options.headers,
                        customHeaders |-> customHeaders,
                        headers |-> RequestHeaders(defaultHeaders, options.headers,
                                                   customHeaders, cookieJar)]
    /\ UNCHANGED <<decl, defaultHeaders, cookieJar, ingested, guardVars, otherVars>>

Request(c) ==
    \E url \in ClientUrls, options \in RawOptions, customHeaders \in CustomLayers :
        RequestCall(c, "request", url, options, customHeaders)

Get(c) ==
    \E url \in ClientUrls, headers \in CustomLayers :
        RequestCall(c, "get", url,
                    [method |-> "GET", headers |-> <<>>, body |-> ""], headers)

\* post() when JSON.stringify(body) at line 256 throws: request() is not
\* called and the promise post() returned is rejected.
PostThrows(c, url, thrown) ==
    /\ inflight[c].pc = "idle"
    /\ \A d \in 1..(c - 1) : inflight[d].pc # "idle"
    /\ last' = [op |-> "return", call |-> c, via |-> "post", url |-> url,
                guard |-> "none",
                cause |-> "stringify", thrown |-> thrown,
                completion |-> "threw", result |-> thrown,
                jarBefore |-> cookieJar, fetchBefore |-> fetchCount]
    /\ UNCHANGED <<decl, defaultHeaders, cookieJar, inflight, fetchCount, ingested,
                   guardVars, otherVars>>

Post(c) ==
    \E url \in ClientUrls, body \in JsonBodies, headers \in SugarLayers :
        IF JSONstringify(body).threw
        THEN PostThrows(c, url, JSONstringify(body).error)
        ELSE RequestCall(c, "post", url,
                         [method |-> "POST",
                          headers |-> << <<"Content-Type", "application/json">> >>,
                          body |-> JSONstringify(body).text], headers)

SubmitForm(c) ==
    \E url \in ClientUrls, formData \in FormDatas, headers \in SugarLayers :
        RequestCall(c, "submitForm", url,
                    [method |-> "POST",
                     headers |-> << <<"Content-Type",
                                      "application/x-www-form-urlencoded">> >>,
                     body |-> URLSearchParamsToString(formData)], headers)

\* fetch resolves: the Set-Cookie lines are stored, the response returned
\* (lines 226-232; lines 48-54 return the bare Response).
Respond(c) ==
    /\ inflight[c].pc = "awaiting"
    /\ inflight[c].url \in Reachable
    /\ \E res \in Responses :
        /\ cookieJar' = StoreSetCookies(cookieJar, res.setCookies)
        /\ ingested' = ingested \o
                          [i \in 1..Len(res.setCookies) |->
                              [line |-> res.setCookies[i], url |-> inflight[c].url,
                               seq |-> inflight[c].seq]]
        /\ last' = [op |-> "return", call |-> c, url |-> inflight[c].url,
                    via |-> inflight[c].via,
                    guard |-> inflight[c].guard,
                    cause |-> "response", completion |-> "returned",
                    response |-> res,
                    result |-> IF decl = SecondDecl THEN ok(res) ELSE res,
                    jarBefore |-> cookieJar, fetchBefore |-> fetchCount]
    /\ inflight' = [inflight EXCEPT ![c] = Idle]
    /\ UNCHANGED <<decl, defaultHeaders, fetchCount, guardVars, otherVars>>

\* fetch rejects: the second declaration catches and returns an
\* InternalServerError (lines 233-236); the first has no try and the
\* exception leaves request().
Throw(c) ==
    /\ inflight[c].pc = "awaiting"
    /\ \E e \in Thrown :
        last' = [op |-> "return", call |-> c, url |-> inflight[c].url,
                 via |-> inflight[c].via,
                 guard |-> inflight[c].guard,
                 cause |-> "threw", thrown |-> e,
                 completion |-> IF decl = SecondDecl THEN "returned" ELSE "threw",
                 result |-> IF decl = SecondDecl THEN CatchResult(e) ELSE e,
                 jarBefore |-> cookieJar, fetchBefore |-> fetchCount]
    /\ inflight' = [inflight EXCEPT ![c] = Idle]
    /\ UNCHANGED <<decl, defaultHeaders, cookieJar, fetchCount, ingested, guardVars, otherVars>>

(***************************************************************************)
(* timingSafeEqual (src/src/utils/crypto.ts). A string is the sequence of  *)
(* its UTF-16 code units, as charCodeAt reads it.                          *)
(***************************************************************************)
\* x ^ y and x | y on non-negative integers below 2^31.
RECURSIVE BitXor(_, _)
BitXor(x, y) ==
    IF x = 0 THEN y
    ELSE IF y = 0 THEN x
    ELSE ((x + y) % 2) + 2 * BitXor(x \div 2, y \div 2)

RECURSIVE BitOr(_, _)
BitOr(x, y) ==
    IF x = 0 THEN y
    ELSE IF y = 0 THEN x
    ELSE (IF x % 2 = 1 \/ y % 2 = 1 THEN 1 ELSE 0) + 2 * BitOr(x \div 2, y \div 2)

MathMax(x, y) == IF x >= y THEN x ELSE y

\* i < str.length ? str.charCodeAt(i) : 0, i counting from 0
CharCodeOrZero(str, i) == IF i < Len(str) THEN str[i + 1] ELSE 0

\* The start value of result with the lengths left out: what C15 must tell
\* from line 15.
InitialResult_Zero(a, b) == 0

\* Line 15: let result = a.length ^ b.length
InitialResult(a, b) == BitXor(Len(a), Len(b))

\* The loop left as soon as a difference is seen: what C16 must tell from
\* line 17.
LoopContinues_EarlyExit(i, maxLen, result) == i < maxLen /\ result = 0

\* Line 17: the loop condition i < maxLen
LoopContinues(i, maxLen, result) == i < maxLen

\* Lines 19-21: one pass of the loop body
LoopBody(a, b, i, result) ==
    BitOr(result, BitXor(CharCodeOrZero(a, i), CharCodeOrZero(b, i)))

RECURSIVE TimingLoop(_, _, _, _, _)
TimingLoop(a, b, i, maxLen, result) ==
    IF LoopContinues(i, maxLen, result)
    THEN Let(LoopBody(a, b, i, result), LAMBDA next :
             TimingLoop(a, b, i + 1, maxLen, next))
    ELSE result = 0

timingSafeEqual(a, b) ==
    TimingLoop(a, b, 0, MathMax(Len(a), Len(b)), InitialResult(a, b))

\* Strings compared: all of up to MaxSecretLen code units over a few code
\* units (0 among them), and four longer-alphabet ones.
MaxSecretLen == 3

CodeUnits == {0, 97, 98}

RECURSIVE StringsOfLen(_)
StringsOfLen(n) ==
    IF n = 0 THEN {<<>>}
    ELSE {Append(t, u) : t \in StringsOfLen(n - 1), u \in CodeUnits}

CompareStrings ==
    UNION {StringsOfLen(n) : n \in 0..MaxSecretLen}
    \cup {<<97, 98, 99>>, <<97, 98, 100>>, <<97, 97, 97>>, <<122, 97, 97>>}

CmpIdle == [pc |-> "off"]

CompareIdle == cmp = CmpIdle

\* Lines 13-15 and the loop's let i = 0
CompareStart ==
    /\ cmp.pc = "call"
    /\ cmp' = [cmp EXCEPT !.pc = "loop",
                          !.maxLen = MathMax(Len(cmp.a), Len(cmp.b)),
                          !.result = InitialResult(cmp.a, cmp.b),
                          !.i = 0]
    /\ UNCHANGED <<guardVars, clientVars, hook, bot>>

\* Lines 17-22: one iteration
CompareStep ==
    /\ cmp.pc = "loop"
    /\ LoopContinues(cmp.i, cmp.maxLen, cmp.result)
    /\ cmp' = [cmp EXCEPT !.result = LoopBody(cmp.a, cmp.b, cmp.i, cmp.result),
                          !.i = cmp.i + 1,
                          !.iterations = cmp.iterations + 1]
    /\ UNCHANGED <<guardVars, clientVars, hook, bot>>

\* Line 24, once the loop condition fails
CompareReturn ==
    /\ cmp.pc = "loop"
    /\ ~LoopContinues(cmp.i, cmp.maxLen, cmp.result)
    /\ cmp' = [cmp EXCEPT !.pc = "done", !.returned = (cmp.result = 0)]
    /\ UNCHANGED <<guardVars, clientVars, hook, bot>>

(***************************************************************************)
(* The Telegram webhook: routes.post("/telegram/webhook") of               *)
(* src/src/routes/index.ts, processUpdate and its handlers (bot-handlers)  *)
(* and the Telegram API calls (telegram.service).                          *)
(* An optional value is <<>> (undefined) or <<v>>. The secret strings are  *)
(* sequences of code units, as timingSafeEqual reads them. Message texts   *)
(* and keyboards sent to Telegram are named, not spelt out.                *)
(***************************************************************************)
Undefined == <<>>
Some(v) == <<v>>
Defined(o) == o # <<>>

UnauthorizedError(message) ==
    [identifier |-> "UnauthorizedError", message |-> message]

ValidationError(message) ==
    [identifier |-> "ValidationError", message |-> message]

\* handleResult: the JSON response made from a Result (the status code comes
\* from mapErrorToStatus and is left out).
handleResult(result) ==
    IF result.isErr
    THEN [success |-> FALSE, message |-> result.error.message,
          identifier |-> result.error.identifier, data |-> Undefined]
    ELSE [success |-> TRUE, message |-> "Request successful",
          identifier |-> "", data |-> Some(result.value)]

MAX_REQUEST_SIZE == 100 * 1024

\* parseInt(str, 10): leading spaces skipped, an optional sign, then the
\* longest run of decimal digits; NaN when there is no digit. A value of
\* 10^8 or more is kept as 10^8.
NaN == [nan |-> TRUE, value |-> 0]

RECURSIVE DecimalFrom(_, _, _, _)
DecimalFrom(s, i, end, acc) ==
    IF i > end THEN acc
    ELSE Let(acc * 10 + DigitOf(Ch(s, i)), LAMBDA next :
             DecimalFrom(s, i + 1, end,
                         IF next > 10000 * 10000 THEN 10000 * 10000 ELSE next))

parseInt(str) ==
    Let(From(str, FirstNotIn(str, 1, {" "})), LAMBDA s :
    Let(IF Len(s) > 0 /\ Ch(s, 1) \in {"+", "-"} THEN 2 ELSE 1, LAMBDA start :
    Let(FirstNotIn(s, start, DigitSet), LAMBDA end :
        IF end = start THEN NaN
        ELSE [nan |-> FALSE,
              value |-> (IF Len(s) > 0 /\ Ch(s, 1) = "-" THEN -1 ELSE 1)
                        * DecimalFrom(s, start, end - 1, 0)])))

\* Lines 31-32: contentLength && parseInt(contentLength, 10) > MAX_REQUEST_SIZE
TooLarge(contentLength) ==
    /\ Defined(contentLength)
    /\ contentLength[1] # ""
    /\ ~parseInt(contentLength[1]).nan
    /\ parseInt(contentLength[1]).value > MAX_REQUEST_SIZE

\* Line 38: c.req.header("X-Telegram-Bot-Api-Secret-Token") ?? ""
SecretOf(header) == IF Defined(header) THEN header[1] ELSE <<>>

\* The handler's checks in the order a mis-ordered handler would run them:
\* the body parsed before the secret is compared.
CheckAfter_ParseFirst(check) ==
    CASE check = "size" -> "json"
      [] check = "json" -> "secret"
      [] check = "secret" -> "schema"
      [] check = "schema" -> "env"
      [] check = "env" -> "process"

\* The order of the handler's checks, lines 30-67: the check that runs when
\* the given one has passed.
CheckAfter(check) ==
    CASE check = "size" -> "secret"
      [] check = "secret" -> "json"
      [] check = "json" -> "schema"
      [] check = "schema" -> "env"
      [] check = "env" -> "process"

\* TelegramUpdateSchema.safeParse(value).success, on the fields modelled
TelegramUpdateSchema(value) ==
    /\ Defined(value.update_id)
    /\ Defined(value.callback_query) => Defined(value.callback_query[1].from)

\* Lines 63-64: some required variable is missing or empty
EnvIncomplete(env) ==
    \/ env.TELEGRAM_BOT_TOKEN = ""
    \/ env.APP_DOWNLOAD_URL = ""
    \/ env.PAYMENT_URL = ""
    \/ env.SUPPORT_CONTACT = ""
    \/ env.PREMIUM_PRICE = ""

\* Lines 70-76
BotConfig(env) ==
    [botToken |-> env.TELEGRAM_BOT_TOKEN,
     appDownloadUrl |-> env.APP_DOWNLOAD_URL,
     paymentUrl |-> env.PAYMENT_URL,
     supportContact |-> env.SUPPORT_CONTACT,
     premiumPrice |-> env.PREMIUM_PRICE]

(***************************************************************************)
(* Requests, updates and deployments tried.                                *)
(***************************************************************************)
ContentLengths ==
    {Undefined, Some("512"), Some("102400"), Some("102401"), Some("abc"),
     Some(" 204800 bytes")}

SecretHeaders ==
    {Undefined, Some(<<>>), Some(<<97, 98, 99>>), Some(<<97, 98, 100>>),
     Some(<<97, 98>>)}

TelegramMessage(chatId, messageId, text) ==
    [message_id |-> messageId, chat |-> [id |-> chatId], text |-> text]

CallbackMessages ==
    {Undefined, Some(TelegramMessage(5, 7, Undefined)),
     Some(TelegramMessage(0, 7, Undefined)), Some(TelegramMessage(5, 0, Undefined))}

CallbackDatas ==
    {Undefined, Some("view_trial"), Some("view_premium"), Some("view_status"),
     Some("trial_start"), Some("back_main"), Some("view_all")}

CallbackQueries ==
    {[id |-> "q1", from |-> Some([id |-> 42]), message |-> m, data |-> d] :
        m \in CallbackMessages, d \in CallbackDatas}

Texts ==
    {Undefined, Some(""), Some("/start"), Some("/START abc"), Some("/start  abc"),
     Some("/plans"), Some(" /Status "), Some("/help"), Some("hello there")}

TelegramUpdate(message, edited, query) ==
    [update_id |-> Some(1), message |-> message, edited_message |-> edited,
     callback_query |-> query]

Updates ==
    {TelegramUpdate(Undefined, Undefined, Some(q)) : q \in CallbackQueries}
    \cup {TelegramUpdate(Some(TelegramMessage(5, 7, t)), Undefined, Undefined) :
            t \in Texts}
    \cup {TelegramUpdate(Undefined, Some(TelegramMessage(5, 7, Some("/help"))),
                         Undefined),
          TelegramUpdate(Some(TelegramMessage(5, 7, Undefined)),
                         Some(TelegramMessage(5, 7, Some("/help"))), Undefined),
          TelegramUpdate(Undefined, Undefined, Undefined)}

\* Parsed bodies the schema refuses: no update_id; a callback query
\* without its sender.
OtherJson ==
    {[update_id |-> Undefined, message |-> Undefined,
      edited_message |-> Undefined, callback_query |-> Undefined],
     TelegramUpdate(Undefined, Undefined,
                    Some([id |-> "q1", from |-> Undefined,
                          message |-> Undefined, data |-> Some("view_trial")]))}

\* A request body: text that is not JSON, or JSON with its parsed value.
NotJson == [kind |-> "text", value |-> Undefined]

Bodies == {NotJson} \cup {[kind |-> "json", value |-> Some(v)] : v \in Updates \cup OtherJson}

Requests == [contentLength : ContentLengths, secret : SecretHeaders, body : Bodies]

Env(secret, token, price) ==
    [TELEGRAM_WEBHOOK_SECRET |-> secret, TELEGRAM_BOT_TOKEN |-> token,
     APP_DOWNLOAD_URL |-> "https://example.com/app",
     PAYMENT_URL |-> "https://example.com/pay",
     SUPPORT_CONTACT |-> "@support", PREMIUM_PRICE |-> price]

Envs ==
    {Env(s, "123:token", "9.99") : s \in {<<97, 98, 99>>, <<>>}}
    \cup {Env(<<97, 98, 99>>, "", "9.99"), Env(<<97, 98, 99>>, "123:token", "")}

\* What fetch does with a Telegram API call: a response with its status,
\* or an exception.
FetchOutcomes ==
    {[threw |-> FALSE, status |-> 200], [threw |-> FALSE, status |-> 400],
     [threw |-> TRUE, status |-> 0]}

(***************************************************************************)
(* telegram.service and bot-handlers.                                      *)
(***************************************************************************)
\* callTelegramApi: the Result made from what fetch did
callTelegramApi(method, outcome) ==
    IF outcome.threw
    THEN err(InternalServerError("Failed to call Telegram API: " \o method))
    ELSE IF ~(outcome.status \in 200..299)
    THEN err(InternalServerError("Telegram API error: " \o ToDec(outcome.status)))
    ELSE ok(TRUE)

\* A Telegram API call as invoked, its result still undefined
ApiCall(method, params) == [method |-> method, params |-> params, result |-> Undefined]

\* !x for an optional number: undefined or 0
Falsy(o) == ~Defined(o) \/ o[1] = 0

\* Lines 294-296
ChatIdOf(query) ==
    IF Defined(query.message) THEN Some(query.message[1].chat.id) ELSE Undefined

MessageIdOf(query) ==
    IF Defined(query.message) THEN Some(query.message[1].message_id) ELSE Undefined

DataOf(query) == IF Defined(query.data) THEN query.data[1] ELSE ""

\* Lines 313-333: the switch over the callback data
CallbackSwitch(query) ==
    LET edit(text, keyboard) ==
            [do |-> "editMessage",
             params |-> [chat_id |-> ChatIdOf(query)[1],
                         message_id |-> MessageIdOf(query)[1],
                         text |-> text, parse_mode |-> "HTML",
                         reply_markup |-> keyboard],
             result |-> Undefined]
    IN  CASE DataOf(query) = "view_trial" -> edit("trialDetails", "TRIAL_KEYBOARD")
          [] DataOf(query) = "view_premium" -> edit("premiumDetails", "premiumKeyboard")
          [] DataOf(query) = "view_status" -> edit("status", "BACK_KEYBOARD")
          [] DataOf(query) = "trial_start" -> edit("trialActivated", "BACK_KEYBOARD")
          [] DataOf(query) = "back_main" -> edit("welcome", "MAIN_KEYBOARD")
          [] OTHER -> [do |-> "return", params |-> Undefined, result |-> Some(ok(TRUE))]

\* Lines 308-311
MissingContext ==
    [do |-> "return", params |-> Undefined,
     result |-> Some(err(InternalServerError("Missing callback message context")))]

\* The handler giving up when the callback could not be answered.
AfterAnswer_ReturnOnFailure(query, answerResult) ==
    IF answerResult.isErr
    THEN [do |-> "return", params |-> Undefined, result |-> Some(answerResult)]
    ELSE IF Falsy(ChatIdOf(query)) \/ Falsy(MessageIdOf(query)) THEN MissingContext
    ELSE CallbackSwitch(query)

\* Lines 304-333: what handleCallbackQuery does once answerCallback has
\* returned (a failure is only logged).
AfterAnswer(query, answerResult) ==
    IF Falsy(ChatIdOf(query)) \/ Falsy(MessageIdOf(query)) THEN MissingContext
    ELSE CallbackSwitch(query)

\* Lines 247-284 of handleMessage: the message and keyboard sent in reply
MessageReply(message) ==
    Let(IF Defined(message.text) THEN ToLower(StripSpaces(message.text[1])) ELSE "",
        LAMBDA text :
    Let(Split(text, " "), LAMBDA words :
        LET command == words[1]
            fingerprint == IF Len(words) >= 2 THEN words[2] ELSE ""
            send(t, keyboard) ==
                [chat_id |-> message.chat.id, text |-> t, parse_mode |-> "HTML",
                 reply_markup |-> keyboard]
        IN  CASE command = "/start" ->
                    IF fingerprint = ""
                    THEN send("noFingerprint", "appDownloadKeyboard")
                    ELSE send("welcome", "MAIN_KEYBOARD")
              [] command = "/plans" -> send("welcome", "MAIN_KEYBOARD")
              [] command = "/status" -> send("status", "MAIN_KEYBOARD")
              [] command = "/help" -> send("help", "MAIN_KEYBOARD")
              [] OTHER -> send("noFingerprint", "appDownloadKeyboard")))

\* Line 232: update.message ?? update.edited_message
MessageOf(update) ==
    IF Defined(update.message) THEN update.message ELSE update.edited_message

\* message?.text as a condition
HasText(message) ==
    /\ Defined(message)
    /\ Defined(message[1].text)
    /\ message[1].text[1] # ""

BotEntered(update, config) ==
    [pc |-> "processUpdate", update |-> update, config |-> config,
     calls |-> <<>>, answerResult |-> Undefined, result |-> Undefined]

\* processUpdate, lines 220-237
ProcessUpdate ==
    /\ bot.pc = "processUpdate"
    /\ bot' = IF Defined(bot.update.callback_query)
              THEN [bot EXCEPT !.pc = "handleCallbackQuery"]
              ELSE IF HasText(MessageOf(bot.update))
              THEN [bot EXCEPT !.pc = "handleMessage"]
              ELSE [bot EXCEPT !.pc = "returned", !.result = Some(ok(TRUE))]
    /\ UNCHANGED <<guardVars, clientVars, cmp, hook>>

\* handleCallbackQuery up to the call of answerCallback, lines 290-303
HandleCallbackQuery ==
    /\ bot.pc = "handleCallbackQuery"
    /\ bot' = [bot EXCEPT
                 !.pc = "answerCallback",
                 !.calls = Append(@, ApiCall("answerCallbackQuery",
                              [callback_query_id |-> bot.update.callback_query[1].id]))]
    /\ UNCHANGED <<guardVars, clientVars, cmp, hook>>

\* answerCallback returns (telegram.service lines 42-67 and 134-150)
AnswerCallbackReturns ==
    /\ bot.pc = "answerCallback"
    /\ \E outcome \in FetchOutcomes :
          LET result == callTelegramApi("answerCallbackQuery", outcome)
          IN  bot' = [bot EXCEPT !.pc = "answered",
                                 !.calls[Len(bot.calls)].result = Some(result),
                                 !.answerResult = Some(result)]
    /\ UNCHANGED <<guardVars, clientVars, cmp, hook>>

\* handleCallbackQuery after answerCallback, lines 304-333
HandleCallbackAnswered ==
    /\ bot.pc = "answered"
    /\ LET next == AfterAnswer(bot.update.callback_query[1], bot.answerResult[1])
       IN  bot' = IF next.do = "return"
                  THEN [bot EXCEPT !.pc = "returned", !.result = next.result]
                  ELSE [bot EXCEPT !.pc = "editMessage",
                                   !.calls = Append(@, ApiCall("editMessageText",
                                                               next.params))]
    /\ UNCHANGED <<guardVars, clientVars, cmp, hook>>

\* handleMessage up to its call of sendMessage, lines 242-285
HandleMessage ==
    /\ bot.pc = "handleMessage"
    /\ bot' = [bot EXCEPT
                 !.pc = "sendMessage",
                 !.calls = Append(@, ApiCall("sendMessage",
                                     MessageReply(MessageOf(bot.update)[1])))]
    /\ UNCHANGED <<guardVars, clientVars, cmp, hook>>

\* editMessage or sendMessage returns, and the handler returns its result
\* (telegram.service lines 42-67, 77-94 and 105-124)
ReplyReturns ==
    /\ bot.pc \in {"editMessage", "sendMessage"}
    /\ \E outcome \in FetchOutcomes :
          LET result == callTelegramApi(bot.calls[Len(bot.calls)].method, outcome)
          IN  bot' = [bot EXCEPT !.pc = "returned",
                                 !.calls[Len(bot.calls)].result = Some(result),
                                 !.result = Some(result)]
    /\ UNCHANGED <<guardVars, clientVars, cmp, hook>>

(***************************************************************************)
(* The webhook route, one action per check. hook.checks lists the checks    *)
(* made so far and hook.bodyRead tells whether c.req.json() was called.    *)
(***************************************************************************)
NoRequest == [contentLength |-> Undefined, secret |-> Undefined, body |-> NotJson]

Listening(env) ==
    [pc |-> "listening", env |-> env, request |-> NoRequest, checks |-> <<>>,
     bodyRead |-> FALSE, body |-> Undefined, response |-> Undefined]

\* A request arrives at POST /telegram/webhook
HookReceive ==
    /\ hook.pc = "listening"
    /\ \E request \in Requests :
          hook' = [hook EXCEPT !.pc = "size", !.request = request]
    /\ UNCHANGED <<guardVars, clientVars, cmp, bot>>

\* return handleResult(err(error))
Refuse(check, error) ==
    [hook EXCEPT !.pc = "done", !.checks = Append(@, check),
                 !.response = Some(handleResult(err(error)))]

Pass(check) == [hook EXCEPT !.pc = CheckAfter(check), !.checks = Append(@, check)]

\* Lines 30-35
HookSizeCheck ==
    /\ hook.pc = "size"
    /\ hook' = IF TooLarge(hook.request.contentLength)
               THEN Refuse("size", BadRequestError("Request body too large"))
               ELSE Pass("size")
    /\ UNCHANGED <<guardVars, clientVars, cmp, bot>>

\* Lines 37-44
HookSecretCheck ==
    /\ hook.pc = "secret"
    /\ hook' = IF ~timingSafeEqual(SecretOf(hook.request.secret),
                                   hook.env.TELEGRAM_WEBHOOK_SECRET)
               THEN Refuse("secret", UnauthorizedError("Invalid webhook secret"))
               ELSE Pass("secret")
    /\ UNCHANGED <<guardVars, clientVars, cmp, bot>>

\* Lines 46-53: the body is read and parsed
HookJsonParse ==
    /\ hook.pc = "json"
    /\ hook' = IF hook.request.body.kind # "json"
               THEN [Refuse("json", ValidationError("Invalid JSON body"))
                        EXCEPT !.bodyRead = TRUE]
               ELSE [Pass("json") EXCEPT !.bodyRead = TRUE,
                                         !.body = hook.request.body.value]
    /\ UNCHANGED <<guardVars, clientVars, cmp, bot>>

\* Lines 55-60
HookSchemaCheck ==
    /\ hook.pc = "schema"
    /\ hook' = IF ~TelegramUpdateSchema(hook.body[1])
               THEN Refuse("schema", ValidationError("Invalid Telegram update payload"))
               ELSE Pass("schema")
    /\ UNCHANGED <<guardVars, clientVars, cmp, bot>>

\* Lines 62-67
HookEnvCheck ==
    /\ hook.pc = "env"
    /\ hook' = IF EnvIncomplete(hook.env)
               THEN Refuse("env", InternalServerError("Server configuration error"))
               ELSE Pass("env")
    /\ UNCHANGED <<guardVars, clientVars, cmp, bot>>

\* Lines 69-78: processUpdate is called
HookProcess ==
    /\ hook.pc = "process"
    /\ bot.pc = "off"
    /\ hook' = [hook EXCEPT !.pc = "awaiting"]
    /\ bot' = BotEntered(hook.body[1], BotConfig(hook.env))
    /\ UNCHANGED <<guardVars, clientVars, cmp>>

\* Line 80: return handleResult(result)
HookReturn ==
    /\ hook.pc = "awaiting"
    /\ bot.pc = "returned"
    /\ hook' = [hook EXCEPT !.pc = "done",
                            !.response = Some(handleResult(bot.result[1]))]
    /\ UNCHANGED <<guardVars, clientVars, cmp, bot>>

(***************************************************************************)
(* Specifications.                                                         *)
(***************************************************************************)
\* The parts of the state a specification does not exercise.
HookIdle == hook = [pc |-> "off"]
BotIdle == bot = [pc |-> "off"]

ClientIdle ==
    /\ decl = SecondDecl
    /\ defaultHeaders = <<>>
    /\ cookieJar = EmptyJar
    /\ inflight = [c \in CallIds |-> Idle]
    /\ fetchCount = 0
    /\ last = [op |-> "none"]
    /\ ingested = <<>>

GuardIdle ==
    /\ guardPc = "off"
    /\ guardInput = [raw |-> "", scheme |-> "", host |-> NoHost]
    /\ guardResult = NoGuardResult

InitClient ==
    /\ decl \in {FirstDecl, SecondDecl}
    /\ defaultHeaders \in DefaultLayers
    /\ cookieJar = EmptyJar
    /\ inflight = [c \in CallIds |-> Idle]
    /\ fetchCount = 0
    /\ last = [op |-> "none"]
    /\ ingested = <<>>

Init == InitClient /\ GuardIdle /\ CompareIdle /\ HookIdle /\ BotIdle

Next ==
    \E c \in CallIds :
        \/ Request(c)
        \/ Get(c)
        \/ Post(c)
        \/ SubmitForm(c)
        \/ Respond(c)
        \/ Throw(c)

Spec == Init /\ [][Next]_vars

\* The jar on its own: the Set-Cookie lines of successive responses handed
\* to it as lines 229-230 do.
MaxIngested == 4

JarLines == {"a=1", "b=2", "a=9", "c=3; Path=/; HttpOnly", "malformed", "b="}

JarBatches == {<<l>> : l \in JarLines} \cup {<<"a=1", "b=2">>, <<"b=2", "malformed", "a=9">>}

InitJar ==
    /\ InitClient
    /\ GuardIdle /\ CompareIdle /\ HookIdle /\ BotIdle
    /\ decl = SecondDecl
    /\ defaultHeaders = <<>>

Ingest ==
    \E lines \in JarBatches :
        /\ Len(ingested) + Len(lines) <= MaxIngested
        /\ cookieJar' = StoreSetCookies(cookieJar, lines)
        /\ ingested' = ingested \o
                          [i \in 1..Len(lines) |-> [line |-> lines[i], url |-> "", seq |-> 0]]
        /\ UNCHANGED <<decl, defaultHeaders, inflight, fetchCount, last, guardVars, otherVars>>

NextJar == Ingest

SpecJar == InitJar /\ [][NextJar]_vars

\* The guard on its own: validateUrl applied to a candidate URL.
InitGuard ==
    /\ guardPc = "input"
    /\ guardInput \in GuardInputs
    /\ guardResult = NoGuardResult
    /\ decl = SecondDecl
    /\ defaultHeaders = <<>>
    /\ cookieJar = EmptyJar
    /\ inflight = [c \in CallIds |-> Idle]
    /\ fetchCount = 0
    /\ last = [op |-> "none"]
    /\ ingested = <<>>
    /\ CompareIdle /\ HookIdle /\ BotIdle

Validate ==
    /\ guardPc = "input"
    /\ guardResult' = validateUrl(guardInput.raw)
    /\ guardPc' = "done"
    /\ UNCHANGED <<guardInput, clientVars, otherVars>>

NextGuard == Validate

SpecGuard == InitGuard /\ [][NextGuard]_vars

\* timingSafeEqual on its own, called with a pair of strings.
InitCompare ==
    /\ \E a \in CompareStrings, b \in CompareStrings :
          cmp = [pc |-> "call", a |-> a, b |-> b, maxLen |-> 0, result |-> 0,
                 i |-> 0, iterations |-> 0, returned |-> FALSE]
    /\ GuardIdle /\ ClientIdle /\ HookIdle /\ BotIdle

NextCompare == CompareStart \/ CompareStep \/ CompareReturn

SpecCompare == InitCompare /\ [][NextCompare]_vars

\* The webhook route serving one request, in any of the deployments.
InitWebhook ==
    /\ ClientIdle
    /\ GuardIdle
    /\ CompareIdle
    /\ BotIdle
    /\ \E env \in Envs : hook = Listening(env)

NextWebhook ==
    \/ HookReceive
    \/ HookSizeCheck
    \/ HookSecretCheck
    \/ HookJsonParse
    \/ HookSchemaCheck
    \/ HookEnvCheck
    \/ HookProcess
    \/ ProcessUpdate
    \/ HandleCallbackQuery
    \/ AnswerCallbackReturns
    \/ HandleCallbackAnswered
    \/ HandleMessage
    \/ ReplyReturns
    \/ HookReturn

SpecWebhook == InitWebhook /\ [][NextWebhook]_vars

(***************************************************************************)
(* Properties of the guard, checked under SpecGuard.                       *)
(***************************************************************************)
GuardDone == guardPc = "done"

\* The guard has decided an http or https URL with a host of the given kind.
HttpGuardDone(kind) ==
    /\ GuardDone
    /\ guardInput.scheme \in {"http", "https"}
    /\ guardInput.host.kind = kind

GuardRejected == guardResult.isErr

\* The classes of IPv6 address the guard is to refuse, on the eight pieces
\* of the address.
V6Loopback(a) == a = <<0, 0, 0, 0, 0, 0, 0, 1>>
V6Mapped(a) == (\A i \in 1..5 : a[i] = 0) /\ a[6] = 65535
V6UniqueLocal(a) == a[1] \div 256 \in {252, 253}
V6LinkLocal(a) == a[1] = 65152
V6Blocked(a) == V6Loopback(a) \/ V6Mapped(a) \/ V6UniqueLocal(a) \/ V6LinkLocal(a)

\* The classes of IPv4 address the guard is to refuse, on the four octets.
V4ClassB(o) == o[1] = 172 /\ o[2] \in 16..31
V4Blocked(o) ==
    \/ o[1] = 127
    \/ o[1] = 10
    \/ V4ClassB(o)
    \/ o[1] = 192 /\ o[2] = 168
    \/ o[1] = 169 /\ o[2] = 254
    \/ o[1] = 0

BlockSet ==
    {"localhost", "localhost.localdomain", "ip6-localhost", "ip6-loopback", "0.0.0.0"}

\* C2: every http/https URL whose host is an IPv6 literal that is the
\* loopback ::1, IPv4-mapped (::ffff:...), unique-local (first byte fc or
\* fd) or link-local (fe80) is rejected by the guard.
C2_BlockedIPv6Rejected ==
    HttpGuardDone("v6") /\ V6Blocked(ParseIPv6(guardInput.host.literal))
        => GuardRejected

\* C3: every http/https URL whose host is an IPv4 address in 127/8, 10/8,
\* 172.16/12, 192.168/16, 169.254/16 or 0/8 is rejected by the guard, and
\* an address 172.b.x.x with b outside 16..31 is not rejected as a private
\* address.
C3_PrivateIPv4Rejected ==
    HttpGuardDone("v4") =>
        /\ V4Blocked(guardInput.host.octets) => GuardRejected
        /\ guardInput.host.octets[1] = 172 /\ ~V4ClassB(guardInput.host.octets)
              => ~GuardRejected

C3_Witness ==
    /\ HttpGuardDone("v4")
    /\ guardInput.host.octets[1] = 172
    /\ guardInput.host.octets[2] = 31
    /\ GuardRejected
    /\ guardResult.error.message = "Blocked: private IP address"

\* C4: every http/https URL whose hostname, lower-cased, is one of
\* localhost, localhost.localdomain, ip6-localhost, ip6-loopback, 0.0.0.0 is
\* rejected by the guard, in whatever letter case the input spells it.
C4_BlockSetRejected ==
    /\ GuardDone
    /\ guardInput.scheme \in {"http", "https"}
    /\ guardInput.host.kind \in {"name", "v4"}
    /\ ToLower(guardInput.host.text) \in BlockSet
    => /\ GuardRejected
       /\ guardResult.error = BadRequestError("Blocked hostname: localhost")

C4_Witness ==
    /\ HttpGuardDone("name")
    /\ guardInput.host.text = "Ip6-Loopback"
    /\ GuardRejected

\* C5: an input that parses as a URL whose scheme is neither http nor https
\* is rejected with an error whose message includes that scheme, whatever
\* its host; an input that does not parse is rejected as malformed.
C5_SchemeCheckedFirst ==
    GuardDone =>
        LET url == ParseURL(guardInput.raw)
        IN  /\ ~url.ok => /\ GuardRejected
                          /\ guardResult.error = BadRequestError("Invalid URL format")
            /\ url.ok /\ url.protocol \notin {"http:", "https:"}
                 => /\ GuardRejected
                    /\ guardResult.error.identifier = "BadRequestError"
                    /\ StartsWith(guardResult.error.message, "Blocked protocol")
                    /\ Includes(guardResult.error.message,
                                SubSeq(url.protocol, 1, Len(url.protocol) - 1))

C5_Witness ==
    /\ GuardDone
    /\ guardInput.scheme = "ftp"
    /\ guardInput.host.text = "localhost"
    /\ GuardRejected
    /\ Includes(guardResult.error.message, "ftp")

\* C6: every http/https URL that parses and whose host is not in the block
\* set and is not an address of a blocked IPv4 or IPv6 class is accepted:
\* the guard returns the parsed URL.
C6_PublicHostAccepted ==
    /\ GuardDone
    /\ guardInput.scheme \in {"http", "https"}
    /\ ParseURL(guardInput.raw).ok
    /\ ToLower(guardInput.host.text) \notin BlockSet
    /\ \/ guardInput.host.kind = "name"
       \/ guardInput.host.kind = "v4" /\ ~V4Blocked(guardInput.host.octets)
       \/ guardInput.host.kind = "v6"
            /\ ~V6Blocked(ParseIPv6(guardInput.host.literal))
    => /\ ~GuardRejected
       /\ guardResult.value = ParseURL(guardInput.raw)

(***************************************************************************)
(* Properties of the client, checked under Spec.                           *)
(***************************************************************************)
Fetching == last.op = "fetch"
Returned(cause) == last.op = "return" /\ last.cause = cause

\* The names a header layer defines, lower-cased, and the value it gives a
\* name: that of its last entry so named.
LayerNames(layer) == {ToLower(layer[i][1]) : i \in 1..Len(layer)}
LayerValue(layer, n) ==
    layer[CHOOSE i \in 1..Len(layer) :
            /\ ToLower(layer[i][1]) = n
            /\ \A j \in (i + 1)..Len(layer) : ToLower(layer[j][1]) # n][2]

\* The value of the highest-priority layer of the last call that defines n.
HighestLayerValue(n) ==
    IF n \in LayerNames(last.customHeaders) THEN LayerValue(last.customHeaders, n)
    ELSE IF n \in LayerNames(last.optionHeaders) THEN LayerValue(last.optionHeaders, n)
    ELSE LayerValue(defaultHeaders, n)

JarNames(jar) == {jar[i].name : i \in 1..Len(jar)}
JarValue(jar, name) == jar[CHOOSE i \in 1..Len(jar) : jar[i].name = name].value

\* C1: fetch is awaited only by a call whose URL the guard accepted, a
\* response is returned only for such a URL, and a call whose URL the guard
\* rejects returns the guard's error with fetch not invoked and the cookie
\* jar unchanged.
C1_BlockedTargetNeverFetched ==
    /\ \A c \in CallIds :
          inflight[c].pc = "awaiting" => ~GuardOf[inflight[c].url].isErr
    /\ Returned("response") => ~GuardOf[last.url].isErr
    /\ last.op = "return" /\ GuardOf[last.url].isErr
          => /\ last.cause = "guard"
             /\ last.result.isErr
             /\ last.result.error.identifier = "BadRequestError"
             /\ cookieJar = last.jarBefore
             /\ fetchCount = last.fetchBefore

\* C7: for every header name some layer defines, the value handed to fetch
\* is that of the highest-priority layer defining it (overrides over
\* options over defaults), names compared without regard to case.
C7_HighestLayerWins ==
    Fetching =>
        \A n \in LayerNames(defaultHeaders) \cup LayerNames(last.optionHeaders)
                   \cup LayerNames(last.customHeaders) :
            /\ n \in DOMAIN last.headers
            /\ last.headers[n] = HighestLayerValue(n)

\* C8: a Cookie header the caller supplies in the override headers is the
\* one handed to fetch when the jar holds cookies; the jar's cookies are
\* sent only when no Cookie header was supplied.
C8_CallerCookieKept ==
    Fetching /\ cookieJar # EmptyJar =>
        /\ "cookie" \in DOMAIN last.headers
        /\ last.headers["cookie"] =
              IF "cookie" \in LayerNames(last.customHeaders)
              THEN LayerValue(last.customHeaders, "cookie")
              ELSE getCookieHeader(cookieJar)

\* C9: when the guard accepted the URL and fetch throws, the call returns
\* an error carrying the thrown Error's message, or "Network request
\* failed" when the thrown value is no Error; nothing is thrown to the
\* caller, the cookie jar is as it was and fetch is not invoked again.
C9_ThrowBecomesError ==
    Returned("threw") /\ last.guard = "accepted" =>
        /\ last.completion = "returned"
        /\ last.result.isErr
        /\ last.result.error.identifier = "InternalServerError"
        /\ last.result.error.message =
              IF last.thrown.isError THEN last.thrown.message
              ELSE "Network request failed"
        /\ cookieJar = last.jarBefore
        /\ fetchCount = last.fetchBefore
        /\ inflight[last.call].pc = "idle"

C9_Witness ==
    /\ Returned("threw")
    /\ last.guard = "accepted"
    /\ ~last.thrown.isError
    /\ last.jarBefore # EmptyJar
    /\ last.result.error.message = "Network request failed"

\* C10: for a response of any status the call returns that response, and
\* on return the jar holds every cookie of the response's Set-Cookie lines
\* (for a name set twice, the later value) and its other cookies as before.
C10_ResponseReturnedCookiesStored ==
    Returned("response") =>
        LET lines == last.response.setCookies
            Sets(i, name) == ParseSetCookie(lines[i]).ok
                                /\ ParseSetCookie(lines[i]).name = name
        IN  /\ last.completion = "returned"
            /\ \/ last.result = ok(last.response)
               \/ last.result = last.response
            /\ \A i \in 1..Len(lines) :
                  ParseSetCookie(lines[i]).ok /\
                  (\A j \in (i + 1)..Len(lines) : ~Sets(j, ParseSetCookie(lines[i]).name))
                  => /\ ParseSetCookie(lines[i]).name \in JarNames(cookieJar)
                     /\ JarValue(cookieJar, ParseSetCookie(lines[i]).name)
                           = ParseSetCookie(lines[i]).value
            /\ \A name \in JarNames(last.jarBefore) :
                  (\A i \in 1..Len(lines) : ~Sets(i, name))
                  => /\ name \in JarNames(cookieJar)
                     /\ JarValue(cookieJar, name) = JarValue(last.jarBefore, name)

C10_Witness ==
    /\ Returned("response")
    /\ last.response.status = 500
    /\ Len(last.response.setCookies) = 2
    /\ last.jarBefore # EmptyJar
    /\ last.result = ok(last.response)

(***************************************************************************)
(* Properties of the cookie jar in the client, checked under Spec and      *)
(* SpecJar, stated on the history of the lines handed to the jar.          *)
(***************************************************************************)
\* The cookie of the i-th line handed to the jar, if the line is well formed.
WellFormed(i) == ParseSetCookie(ingested[i].line).ok
NameAt(i) == ParseSetCookie(ingested[i].line).name
ValueAt(i) == ParseSetCookie(ingested[i].line).value

\* The i-th line is the first, or the last, to set its name.
FirstSetting(i) ==
    WellFormed(i) /\ \A j \in 1..(i - 1) : ~(WellFormed(j) /\ NameAt(j) = NameAt(i))
LastSetting(i) ==
    WellFormed(i) /\
    \A j \in (i + 1)..Len(ingested) : ~(WellFormed(j) /\ NameAt(j) = NameAt(i))

\* The value most recently set for the name of line i.
LatestValue(i) ==
    ValueAt(CHOOSE j \in 1..Len(ingested) : LastSetting(j) /\ NameAt(j) = NameAt(i))

\* One name=value per name, in the order the names were first set, each with
\* its latest value, joined by "; ".
RECURSIVE RenderFrom(_, _)
RenderFrom(i, some) ==
    IF i > Len(ingested) THEN ""
    ELSE IF FirstSetting(i)
    THEN (IF some THEN "; " ELSE "") \o NameAt(i) \o "=" \o LatestValue(i)
             \o RenderFrom(i + 1, TRUE)
    ELSE RenderFrom(i + 1, some)

Rendered == RenderFrom(1, FALSE)

C12_HeaderInInsertionOrder == getCookieHeader(cookieJar) = Rendered

C12_Witness ==
    /\ [i \in 1..Len(ingested) |-> ingested[i].line] = <<"a=1", "b=2", "a=9">>
    /\ getCookieHeader(cookieJar) = "a=9; b=2"

\* C13: a Set-Cookie line without "=" adds nothing to the jar and does not
\* keep the other lines of its response from being stored, and the call
\* still returns the response.
C13_MalformedSkipped ==
    Returned("response") /\
    (\E k \in 1..Len(last.response.setCookies) :
        ~ParseSetCookie(last.response.setCookies[k]).ok)
    => LET lines == last.response.setCookies
           good == {k \in 1..Len(lines) : ParseSetCookie(lines[k]).ok}
       IN  /\ last.completion = "returned"
           /\ last.result = ok(last.response) \/ last.result = last.response
           /\ JarNames(cookieJar) =
                 JarNames(last.jarBefore) \cup {ParseSetCookie(lines[k]).name : k \in good}
           /\ \A k \in good :
                 (\A j \in good : j > k =>
                     ParseSetCookie(lines[j]).name # ParseSetCookie(lines[k]).name)
                 => JarValue(cookieJar, ParseSetCookie(lines[k]).name)
                       = ParseSetCookie(lines[k]).value
           /\ \A n \in JarNames(last.jarBefore) :
                 (\A k \in good : ParseSetCookie(lines[k]).name # n)
                 => JarValue(cookieJar, n) = JarValue(last.jarBefore, n)

C13_Witness ==
    /\ Returned("response")
    /\ last.response.setCookies = <<"malformed", "b=3; Secure">>
    /\ last.jarBefore = <<[name |-> "a", value |-> "1"]>>
    /\ cookieJar = <<[name |-> "a", value |-> "1"], [name |-> "b", value |-> "3"]>>
    /\ last.result = ok(last.response)

\* C14: whatever the order in which the calls were started, the jar holds
\* for every name the value of the line processed last for it, and keeps
\* every name any processed response has set.
C14_LastProcessedWins ==
    \A i \in 1..Len(ingested) :
        WellFormed(i) =>
            /\ NameAt(i) \in JarNames(cookieJar)
            /\ JarValue(cookieJar, NameAt(i)) = LatestValue(i)

\* Two calls were in flight together, the one started later was answered
\* first, both answers set a, and both calls are over.
C14_Witness ==
    /\ \A c \in CallIds : inflight[c].pc = "idle"
    /\ \E i, j \in 1..Len(ingested) :
          /\ i < j
          /\ WellFormed(i) /\ LastSetting(j)
          /\ NameAt(i) = NameAt(j)
          /\ ValueAt(i) # ValueAt(j)
          /\ ingested[i].seq > ingested[j].seq
          /\ JarValue(cookieJar, NameAt(j)) = ValueAt(j)
    /\ \E k \in 1..Len(ingested) :
          /\ LastSetting(k)
          /\ NameAt(k) = "b"
          /\ JarValue(cookieJar, "b") = ValueAt(k)

(***************************************************************************)
(* Properties of timingSafeEqual, checked under SpecCompare.               *)
(***************************************************************************)
CompareDone == cmp.pc = "done"

\* C15: timingSafeEqual(a, b) returns true exactly when a and b are the
\* same sequence of code units: for the empty string, for strings of
\* different lengths, for a prefix, and for a string padded with code
\* units 0.
C15_EqualIffSame ==
    CompareDone =>
        /\ cmp.returned = (cmp.a = cmp.b)
        /\ timingSafeEqual(cmp.a, cmp.b) = cmp.returned

C15_Witness ==
    /\ CompareDone
    /\ cmp.a = <<97>>
    /\ cmp.b = <<97, 0>>
    /\ ~cmp.returned

\* C16: timingSafeEqual(a, b) returns after exactly max(len a, len b)
\* iterations, wherever the strings first differ, and while it loops it
\* has done as many iterations as its index says and not more than that
\* maximum.
C16_IterationsByLengthOnly ==
    /\ cmp.pc \in {"loop", "done"} =>
          /\ cmp.iterations = cmp.i
          /\ cmp.iterations <= MathMax(Len(cmp.a), Len(cmp.b))
    /\ CompareDone => cmp.iterations = MathMax(Len(cmp.a), Len(cmp.b))

C16_Witness ==
    /\ CompareDone
    /\ cmp.a = <<97, 97, 97>>
    /\ cmp.b = <<122, 97, 97>>
    /\ cmp.iterations = 3
    /\ ~cmp.returned

(***************************************************************************)
(* get, post and submitForm against request, checked under Spec.           *)
(***************************************************************************)
Sugar == {"get", "post", "submitForm"}

\* C17: get, post and submitForm call request with the method, the
\* Content-Type option header and the body they build, and end only as
\* request ends: with the guard's error, the response, or the error made
\* from what fetch threw, never with an exception of their own.
C17_SugarOverRequest ==
    /\ Fetching /\ last.via = "get" =>
          last.method = "GET" /\ last.optionHeaders = <<>> /\ last.body = ""
    /\ Fetching /\ last.via = "post" =>
          /\ last.method = "POST"
          /\ last.optionHeaders = << <<"Content-Type", "application/json">> >>
    /\ Fetching /\ last.via = "submitForm" =>
          /\ last.method = "POST"
          /\ last.optionHeaders =
                << <<"Content-Type", "application/x-www-form-urlencoded">> >>
    /\ last.op = "return" /\ last.via \in Sugar =>
          /\ last.cause \in {"guard", "response", "threw"}
          /\ last.guard \in {"accepted", "rejected"} => last.completion = "returned"

(***************************************************************************)
(* The webhook route and the callback handler, checked under SpecWebhook.  *)
(***************************************************************************)
Arrived == hook.pc \notin {"off", "listening"}

\* The header, or the empty string in its place, is the configured secret.
SecretMatches ==
    (IF hook.request.secret = Undefined THEN <<>> ELSE hook.request.secret[1])
        = hook.env.TELEGRAM_WEBHOOK_SECRET

\* The Content-Length values tried that announce more than 102400 bytes.
OverLimit == hook.request.contentLength \in {Some("102401"), Some(" 204800 bytes")}

CheckOrder == <<"size", "secret", "json", "schema", "env">>

\* Whether the request and the deployment fail the given check.
Fails(check) ==
    CASE check = "size" -> OverLimit
      [] check = "secret" -> ~SecretMatches
      [] check = "json" -> hook.request.body.kind = "text"
      [] check = "schema" -> /\ hook.request.body.kind = "json"
                             /\ hook.request.body.value[1] \in OtherJson
      [] check = "env" -> \/ hook.env.TELEGRAM_BOT_TOKEN = ""
                          \/ hook.env.PREMIUM_PRICE = ""

FirstFailing ==
    IF \E i \in 1..5 : Fails(CheckOrder[i])
    THEN CheckOrder[CHOOSE i \in 1..5 :
                        /\ Fails(CheckOrder[i])
                        /\ \A j \in 1..(i - 1) : ~Fails(CheckOrder[j])]
    ELSE "none"

RefusalOf(check) ==
    CASE check = "size" -> <<"BadRequestError", "Request body too large">>
      [] check = "secret" -> <<"UnauthorizedError", "Invalid webhook secret">>
      [] check = "json" -> <<"ValidationError", "Invalid JSON body">>
      [] check = "schema" -> <<"ValidationError", "Invalid Telegram update payload">>
      [] check = "env" -> <<"InternalServerError", "Server configuration error">>

\* C18: the webhook route makes its checks in the order size limit,
\* secret, JSON parse, schema, environment and answers with the refusal of
\* the first check that fails; processUpdate is entered (and a Telegram API
\* call made) only when the secret header equals the configured secret;
\* a request whose secret does not match never has its body read and,
\* having passed the size limit, is answered Unauthorized.
C18_ChecksInOrder ==
    /\ Arrived => hook.checks = SubSeq(CheckOrder, 1, Len(hook.checks))
    /\ hook.pc = "done" =>
          IF FirstFailing # "none"
          THEN /\ hook.checks[Len(hook.checks)] = FirstFailing
               /\ <<hook.response[1].identifier, hook.response[1].message>>
                     = RefusalOf(FirstFailing)
               /\ bot.pc = "off"
          ELSE /\ hook.checks = CheckOrder
               /\ bot.pc = "returned"
               /\ hook.response[1].success = ~bot.result[1].isErr
    /\ bot.pc # "off" => SecretMatches
    /\ Arrived /\ ~SecretMatches =>
          /\ ~hook.bodyRead
          /\ hook.pc = "done" /\ ~OverLimit =>
                hook.response[1].identifier = "UnauthorizedError"

\* A request with a valid update and a wrong secret has been refused.
C18_Witness ==
    /\ hook.pc = "done"
    /\ ~SecretMatches
    /\ ~OverLimit
    /\ hook.request.secret = Some(<<97, 98, 100>>)
    /\ hook.request.body.kind = "json"
    /\ hook.request.body.value[1] \in Updates
    /\ hook.response[1].identifier = "UnauthorizedError"
    /\ ~hook.bodyRead

HandlingCallback == bot.pc # "off" /\ Defined(bot.update.callback_query)

CallsOf(method) == {i \in 1..Len(bot.calls) : bot.calls[i].method = method}

EditingData == {"view_trial", "view_premium", "view_status", "trial_start", "back_main"}

\* The query carries no message, or a chat id or message id of 0.
NoContext ==
    LET message == bot.update.callback_query[1].message
    IN  \/ message = Undefined
        \/ message[1].chat.id = 0
        \/ message[1].message_id = 0

\* C19: while processUpdate handles a callback query, answerCallback is
\* invoked once, and has returned before any editMessage is invoked;
\* the result returned depends on the query and on the edit alone: the
\* missing-context InternalServerError, with no edit, when the chat id or
\* message id is missing; the edit's result for the five known data values;
\* success otherwise.
C19_AnswerOnceThenEdit ==
    HandlingCallback =>
        /\ Cardinality(CallsOf("answerCallbackQuery")) =
              (IF bot.pc \in {"processUpdate", "handleCallbackQuery"} THEN 0 ELSE 1)
        /\ \A i \in CallsOf("editMessageText") :
              \E j \in CallsOf("answerCallbackQuery") :
                  j < i /\ Defined(bot.calls[j].result)
        /\ CallsOf("sendMessage") = {}
        /\ bot.pc = "returned" =>
              IF NoContext
              THEN /\ bot.result[1] =
                         err(InternalServerError("Missing callback message context"))
                   /\ CallsOf("editMessageText") = {}
              ELSE IF /\ bot.update.callback_query[1].data # Undefined
                      /\ bot.update.callback_query[1].data[1] \in EditingData
              THEN /\ CallsOf("editMessageText") = {2}
                   /\ bot.result = bot.calls[2].result
              ELSE /\ bot.result[1] = ok(TRUE)
                   /\ CallsOf("editMessageText") = {}

\* answerCallback failed, the edit was made all the same and succeeded.
C19_Witness ==
    /\ HandlingCallback
    /\ bot.pc = "returned"
    /\ bot.calls[1].method = "answerCallbackQuery"
    /\ bot.calls[1].result[1].isErr
    /\ Len(bot.calls) = 2
    /\ bot.calls[2].method = "editMessageText"
    /\ bot.result[1] = ok(TRUE)

=============================================================================
